---------------------------- MODULE Spec2Model ----------------------------
(***************************************************************************)
(* Map Badge Card: the entity telemetry pipeline (EntityDataFetcher), the  *)
(* iframe transport (IframeMessenger), the configuration resolver          *)
(* (ConfigManager) and the card element that schedules them (MapBadgeCard).*)
(*                                                                         *)
(* Units.  Time is in milliseconds, as Date.now().  A latitude is a whole  *)
(* number of grid steps of 0.0009 degrees; every position with usable GPS  *)
(* lies on one meridian (longitude Lon), where the Haversine formula       *)
(* reduces to R * |dLat|.  Distances are in millimetres and speeds in      *)
(* thousandths of a km/h, so that the code's floating point comparisons    *)
(* become integer comparisons.                                             *)
(***************************************************************************)
EXTENDS Integers, Sequences, FiniteSets, TLC

VARIABLES
    now,                    \* Date.now()
    hass,                   \* EntityDataFetcher._hass: TRUE when a host object is attached
    entities,               \* EntityDataFetcher._entities
    entityCache,            \* EntityDataFetcher._entityCache
    positionHistory,        \* EntityDataFetcher._positionHistory
    lastPredictedActivity,  \* EntityDataFetcher._lastPredictedActivity
    config,                 \* ConfigManager._config
    updateInterval,         \* MapBadgeCard._updateInterval: a timer handle, 0 for null
    retryInterval,          \* MapBadgeCard._retryInterval: a timer handle, 0 for null
    pendingData,            \* MapBadgeCard._pendingData
    iframe,                 \* MapBadgeCard._iframe and IframeMessenger._iframe: TRUE when set
    iframeReady,            \* IframeMessenger._iframeReady
    retryCount,             \* IframeMessenger._retryCount
    messageListener,        \* IframeMessenger._messageListener: TRUE when set
    callbacks,              \* IframeMessenger._readyCallback and _dataRequestCallback: TRUE when set
    listeners,              \* the number of 'message' listeners registered on the window
    timers,                 \* the interval timers that are active
    timeouts,               \* the one-shot timers pending after an iframe load
    connected,              \* the card element is in the document
    recorded,               \* history variable: the last samples pushed, per entity
    processed,              \* history variable: how many samples were pushed, per entity
    resent,                 \* history variable: how many retry ticks in a row posted a snapshot
    calls,                  \* the calls of _fetchEntities that have not returned yet
    log                     \* what the handler that ran last prepared, sent and threw

vars == <<now, hass, entities, entityCache, positionHistory, lastPredictedActivity,
          config, updateInterval, retryInterval, pendingData, iframe, iframeReady,
          retryCount, messageListener, callbacks, listeners, timers, timeouts, connected,
          recorded, processed, resent, calls, log>>

-----------------------------------------------------------------------------
(* Bounds of the model *)

MaxNow == 5000
MaxSamples == 7
HistorySamples == 6
FetcherSteps == {5000}
CardMaxNow == 30000
CardSamples == 2
CycleSamples == 3
MaxCalls == 2
CardSteps == {30000}

(* Program constants *)

HistoryCapacity == 5
Window == HistoryCapacity + 1
MinTotalTime == 5000
MmPerLatStep == 100075
Lon == 7

NULL == "null"
Missing == "undefined"

Persons == {"person.a", "person.b"}
Sensors == {"sensor.a"}
SensorStates == {"running", "walking"}
ZoneStates == {"home"}

-----------------------------------------------------------------------------
(* Helpers *)

Abs(x) == IF x < 0 THEN -x ELSE x

Min(a, b) == IF a < b THEN a ELSE b

\* An optional value (a number or an object that may be null or undefined)
None == <<>>
Some(v) == <<v>>
IsSome(o) == o # <<>>
Val(o) == o[1]

\* JavaScript truthiness of a string or null, of an optional number, of an optional object
TruthyStr(v) == v \notin {Missing, NULL, ""}
TruthyNum(o) == IsSome(o) /\ Val(o) # 0
TruthyObj(o) == IsSome(o)

Put(f, k, v) == [x \in (DOMAIN f) \cup {k} |-> IF x = k THEN v ELSE f[x]]

Get(f, k) == IF k \in DOMAIN f THEN f[k] ELSE Missing

SeqAt(f, k) == IF k \in DOMAIN f THEN f[k] ELSE <<>>

\* the last n elements of a sequence
LastOf(q, n) == IF Len(q) <= n THEN q ELSE SubSeq(q, Len(q) - n + 1, Len(q))

Emit(s, ev) == [s EXCEPT !.log = Append(@, ev)]

-----------------------------------------------------------------------------
(* constants.js *)

ACTIVITY_THRESHOLDS == [still |-> 1000, walking |-> 7000, cycling |-> 25000, vehicle |-> 25000]

-----------------------------------------------------------------------------
(* EntityDataFetcher *)

\* _calculateHaversineDistance for two points of one meridian, in millimetres
CalculateHaversineDistance(lat1, lon1, lat2, lon2) ==
    MmPerLatStep * Abs(lat2 - lat1)

RECURSIVE SpeedLoop(_, _, _, _)
SpeedLoop(history, currentPosition, i, acc) ==
    IF i > Len(history) THEN acc
    ELSE LET point1 == history[i]
             point2 == IF i + 1 <= Len(history) THEN history[i + 1] ELSE currentPosition
             distance == CalculateHaversineDistance(point1.latitude, point1.longitude,
                                                    point2.latitude, point2.longitude)
             timeDiff == point2.timestamp - point1.timestamp
         IN  SpeedLoop(history, currentPosition, i + 1,
                       IF timeDiff > 0
                       THEN [totalDistance |-> acc.totalDistance + distance,
                             totalTime |-> acc.totalTime + timeDiff,
                             pointsUsed |-> acc.pointsUsed + 1]
                       ELSE acc)

\* calculateSpeed over the newest stored sample and the current position only
CalculateSpeedLastPair(histories, entityId, currentPosition) ==
    LET history == IF entityId \in DOMAIN histories THEN histories[entityId] ELSE <<>>
    IN  IF Len(history) < 1 THEN None
        ELSE LET t == SpeedLoop(history, currentPosition, Len(history),
                                [totalDistance |-> 0, totalTime |-> 0, pointsUsed |-> 0])
             IN  IF t.totalTime < MinTotalTime THEN None
                 ELSE Some([speed_kmh |-> (36 * t.totalDistance) \div (t.totalTime \div 100),
                            speed_mph |-> 0,
                            time_diff |-> t.totalTime,
                            distance_m |-> t.totalDistance])

\* calculateSpeed asking for two stored samples, as its comment says
CalculateSpeedTwoSamples(histories, entityId, currentPosition) ==
    LET history == IF entityId \in DOMAIN histories THEN histories[entityId] ELSE <<>>
    IN  IF Len(history) < 2 THEN None
        ELSE LET t == SpeedLoop(history, currentPosition, 1,
                                [totalDistance |-> 0, totalTime |-> 0, pointsUsed |-> 0])
             IN  IF t.totalTime < MinTotalTime THEN None
                 ELSE Some([speed_kmh |-> (36 * t.totalDistance) \div (t.totalTime \div 100),
                            speed_mph |-> 0,
                            time_diff |-> t.totalTime,
                            distance_m |-> t.totalDistance])

CalculateSpeed(histories, entityId, currentPosition) ==
    LET history == IF entityId \in DOMAIN histories THEN histories[entityId] ELSE <<>>
    IN  IF Len(history) < 1 THEN None
        ELSE LET t == SpeedLoop(history, currentPosition, 1,
                                [totalDistance |-> 0, totalTime |-> 0, pointsUsed |-> 0])
             IN  IF t.totalTime < MinTotalTime THEN None
                 ELSE LET \* 3600 * mm / ms, the times of the model being multiples of 100 ms
                          speedKmh == (36 * t.totalDistance) \div (t.totalTime \div 100)
                      IN  Some([speed_kmh |-> speedKmh,
                                speed_mph |-> ((speedKmh \div 1000) * 621371) \div 1000
                                              + ((speedKmh % 1000) * 621371) \div 1000000,
                                time_diff |-> t.totalTime,
                                distance_m |-> t.totalDistance])

\* predictActivity with bounds that include the threshold
PredictActivityInclusive(speedKmh) ==
    IF ~IsSome(speedKmh) THEN NULL
    ELSE IF Val(speedKmh) <= ACTIVITY_THRESHOLDS.still THEN "still"
    ELSE IF Val(speedKmh) <= ACTIVITY_THRESHOLDS.walking THEN "walking"
    ELSE IF Val(speedKmh) <= ACTIVITY_THRESHOLDS.cycling THEN "on_bicycle"
    ELSE "in_vehicle"

\* predictActivity of an optional speed
PredictActivity(speedKmh) ==
    IF ~IsSome(speedKmh) THEN NULL
    ELSE IF Val(speedKmh) < ACTIVITY_THRESHOLDS.still THEN "still"
    ELSE IF Val(speedKmh) < ACTIVITY_THRESHOLDS.walking THEN "walking"
    ELSE IF Val(speedKmh) < ACTIVITY_THRESHOLDS.cycling THEN "on_bicycle"
    ELSE "in_vehicle"

\* a ring buffer that drops the sample just pushed instead of the oldest
UpdatePositionHistoryDropsNewest(histories, entityId, position) ==
    LET history == IF entityId \in DOMAIN histories THEN histories[entityId] ELSE <<>>
        pushed == Append(history, [latitude |-> position.latitude,
                                   longitude |-> position.longitude,
                                   timestamp |-> position.timestamp])
    IN  Put(histories, entityId,
            IF Len(pushed) > HistoryCapacity THEN history ELSE pushed)

UpdatePositionHistory(histories, entityId, position) ==
    LET history == IF entityId \in DOMAIN histories THEN histories[entityId] ELSE <<>>
        pushed == Append(history, [latitude |-> position.latitude,
                                   longitude |-> position.longitude,
                                   timestamp |-> position.timestamp])
    IN  Put(histories, entityId,
            IF Len(pushed) > HistoryCapacity THEN Tail(pushed) ELSE pushed)

\* the sensor's label, or "unknown"
SensorActivity(data) ==
    IF TruthyObj(data.activity) THEN Val(data.activity).state ELSE "unknown"

\* a resolution that forgets the sticky label when there is no speed
GetActivityToUseNoSticky(data, entityId, cfg, memory) ==
    IF IsSome(cfg) /\ Val(cfg).activity_source = "speed_predicted"
    THEN IF TruthyObj(data.speed)
         THEN [activity |-> data.predicted_activity,
               memory |-> Put(memory, entityId, data.predicted_activity)]
         ELSE [activity |-> "unknown", memory |-> memory]
    ELSE [activity |-> SensorActivity(data), memory |-> memory]

\* a resolution that falls back to the sensor when prediction has nothing to offer
GetActivityToUseSensorFallback(data, entityId, cfg, memory) ==
    IF IsSome(cfg) /\ Val(cfg).activity_source = "speed_predicted"
    THEN IF TruthyObj(data.speed)
         THEN [activity |-> data.predicted_activity,
               memory |-> Put(memory, entityId, data.predicted_activity)]
         ELSE IF TruthyStr(Get(memory, entityId))
              THEN [activity |-> Get(memory, entityId), memory |-> memory]
              ELSE [activity |-> SensorActivity(data), memory |-> memory]
    ELSE [activity |-> SensorActivity(data), memory |-> memory]

\* a resolution that also records the prediction in sensor mode
GetActivityToUseRecordsInSensorMode(data, entityId, cfg, memory) ==
    IF TruthyObj(data.speed)
    THEN [activity |-> IF IsSome(cfg) /\ Val(cfg).activity_source = "speed_predicted"
                       THEN data.predicted_activity ELSE SensorActivity(data),
          memory |-> Put(memory, entityId, data.predicted_activity)]
    ELSE IF IsSome(cfg) /\ Val(cfg).activity_source = "speed_predicted"
         THEN [activity |-> IF TruthyStr(Get(memory, entityId))
                            THEN Get(memory, entityId) ELSE "unknown",
               memory |-> memory]
         ELSE [activity |-> SensorActivity(data), memory |-> memory]

\* _getActivityToUse: the label and the sticky memory it leaves behind
\* the activity resolution answering with the label remembered before this call
GetActivityToUseReturnsPrevious(data, entityId, cfg, memory) ==
    IF IsSome(cfg) /\ Val(cfg).activity_source = "speed_predicted"
    THEN IF TruthyObj(data.speed)
         THEN LET predictedActivity ==
                      IF TruthyStr(data.predicted_activity) THEN data.predicted_activity
                      ELSE "unknown"
                  lastActivity == Get(memory, entityId)
              IN  [activity |-> IF TruthyStr(lastActivity) THEN lastActivity
                                ELSE "unknown",
                   memory |-> Put(memory, entityId, predictedActivity)]
         ELSE LET lastActivity == Get(memory, entityId)
              IN  IF TruthyStr(lastActivity)
                  THEN [activity |-> lastActivity, memory |-> memory]
                  ELSE [activity |-> "unknown", memory |-> memory]
    ELSE [activity |-> IF TruthyObj(data.activity) THEN Val(data.activity).state ELSE "unknown",
          memory |-> memory]

GetActivityToUse(data, entityId, cfg, memory) ==
    IF IsSome(cfg) /\ Val(cfg).activity_source = "speed_predicted"
    THEN IF TruthyObj(data.speed)
         THEN LET predictedActivity ==
                      IF TruthyStr(data.predicted_activity) THEN data.predicted_activity
                      ELSE "unknown"
              IN  [activity |-> predictedActivity,
                   memory |-> Put(memory, entityId, predictedActivity)]
         ELSE LET lastActivity == Get(memory, entityId)
              IN  IF TruthyStr(lastActivity)
                  THEN [activity |-> lastActivity, memory |-> memory]
                  ELSE [activity |-> "unknown", memory |-> memory]
    ELSE [activity |-> IF TruthyObj(data.activity) THEN Val(data.activity).state ELSE "unknown",
          memory |-> memory]

RECURSIVE PrepareLoop(_, _, _, _, _)
PrepareLoop(keys, cache, cfg, memory, entityData) ==
    IF keys = {} THEN [entityData |-> entityData, memory |-> memory]
    ELSE LET entityId == CHOOSE k \in keys : TRUE
             data == cache[entityId]
             r == GetActivityToUse(data, entityId, cfg, memory)
             entry == [state |-> data.person.state,
                       latitude |-> Val(data.person.attributes).latitude,
                       longitude |-> Val(data.person.attributes).longitude,
                       activity |-> r.activity,
                       speed |-> IF TruthyObj(data.speed) THEN data.speed ELSE None,
                       predicted_activity |-> IF TruthyStr(data.predicted_activity)
                                              THEN data.predicted_activity ELSE NULL]
         IN  PrepareLoop(keys \ {entityId}, cache, cfg, r.memory,
                         Put(entityData, entityId, entry))

\* prepareEntityData on the state record s: s.ret is the snapshot
PrepareEntityData(s, cfg) ==
    LET Return(r) ==
            Emit([s EXCEPT !.lastPredictedActivity = r.memory, !.ret = r.entityData],
                 [op |-> "prepareEntityData",
                  source |-> IF IsSome(cfg) THEN Val(cfg).activity_source ELSE Missing,
                  cache |-> s.entityCache,
                  memoryBefore |-> s.lastPredictedActivity,
                  memoryAfter |-> r.memory,
                  data |-> r.entityData])
    IN  Return(PrepareLoop(DOMAIN s.entityCache, s.entityCache, cfg,
                           s.lastPredictedActivity, <<>>))

HasData(s) == DOMAIN s.entityCache # {}

RECURSIVE MaxOf(_)
MaxOf(S) == IF S = {} THEN 0
            ELSE LET x == CHOOSE y \in S : TRUE
                     m == MaxOf(S \ {x})
                 IN  IF x > m THEN x ELSE m

GetLastUpdateTime(s) ==
    IF ~HasData(s) THEN 0
    ELSE MaxOf({s.entityCache[e].timestamp : e \in DOMAIN s.entityCache})

\* the loop of fetchEntities leaving at the first entity it cannot use
RECURSIVE FetchLoopAbortsOnFailure(_, _, _, _)
FetchLoopAbortsOnFailure(s, view, i, hasValidData) ==
    IF i > Len(s.entities) THEN [s EXCEPT !.ret = hasValidData]
    ELSE LET entityConfig == s.entities[i]
             personState == view.persons[entityConfig.person]
         IN  IF ~IsSome(personState) THEN [s EXCEPT !.ret = hasValidData]
             ELSE IF ~IsSome(Val(personState).attributes)   \* TypeError, caught
                  THEN [s EXCEPT !.ret = hasValidData]
             ELSE LET attributes == Val(Val(personState).attributes)
                  IN  IF ~TruthyNum(attributes.latitude) \/ ~TruthyNum(attributes.longitude)
                      THEN [s EXCEPT !.ret = hasValidData]
                      ELSE LET activityState ==
                                   IF TruthyStr(entityConfig.activity)
                                   THEN (IF entityConfig.activity \in DOMAIN view.sensors
                                         THEN view.sensors[entityConfig.activity] ELSE None)
                                   ELSE None
                               currentPosition == [latitude |-> Val(attributes.latitude),
                                                   longitude |-> Val(attributes.longitude),
                                                   timestamp |-> s.now]
                               Record(speedData) ==
                                   [person |-> Val(personState),
                                    activity |-> activityState,
                                    speed |-> speedData,
                                    predicted_activity |->
                                        IF TruthyObj(speedData)
                                        THEN PredictActivity(Some(Val(speedData).speed_kmh))
                                        ELSE NULL,
                                    timestamp |-> s.now]
                               record == Record(CalculateSpeed(s.positionHistory,
                                                               entityConfig.person,
                                                               currentPosition))
                           IN  FetchLoopAbortsOnFailure([s EXCEPT
                                            !.recorded = Put(@, entityConfig.person,
                                                LastOf(Append(SeqAt(@, entityConfig.person),
                                                              currentPosition), Window)),
                                            !.processed = Put(@, entityConfig.person,
                                                IF entityConfig.person \in DOMAIN @
                                                THEN @[entityConfig.person] + 1 ELSE 1),
                                            !.positionHistory =
                                                UpdatePositionHistory(@, entityConfig.person,
                                                                      currentPosition),
                                            !.entityCache = Put(@, entityConfig.person, record)],
                                         view, i + 1, TRUE)

\* The body of the for loop of fetchEntities, from the i-th configured entity on;
\* view is what this._hass.states holds during the cycle
RECURSIVE FetchLoop(_, _, _, _)
FetchLoop(s, view, i, hasValidData) ==
    IF i > Len(s.entities) THEN [s EXCEPT !.ret = hasValidData]
    ELSE LET entityConfig == s.entities[i]
             personState == view.persons[entityConfig.person]
         IN  IF ~IsSome(personState) THEN FetchLoop(s, view, i + 1, hasValidData)
             ELSE IF ~IsSome(Val(personState).attributes)   \* TypeError, caught
                  THEN FetchLoop(s, view, i + 1, hasValidData)
             ELSE LET attributes == Val(Val(personState).attributes)
                  IN  IF ~TruthyNum(attributes.latitude) \/ ~TruthyNum(attributes.longitude)
                      THEN FetchLoop(s, view, i + 1, hasValidData)
                      ELSE LET activityState ==
                                   IF TruthyStr(entityConfig.activity)
                                   THEN (IF entityConfig.activity \in DOMAIN view.sensors
                                         THEN view.sensors[entityConfig.activity] ELSE None)
                                   ELSE None
                               currentPosition == [latitude |-> Val(attributes.latitude),
                                                   longitude |-> Val(attributes.longitude),
                                                   timestamp |-> s.now]
                               Record(speedData) ==
                                   [person |-> Val(personState),
                                    activity |-> activityState,
                                    speed |-> speedData,
                                    predicted_activity |->
                                        IF TruthyObj(speedData)
                                        THEN PredictActivity(Some(Val(speedData).speed_kmh))
                                        ELSE NULL,
                                    timestamp |-> s.now]
                               record == Record(CalculateSpeed(s.positionHistory,
                                                               entityConfig.person,
                                                               currentPosition))
                           IN  FetchLoop([s EXCEPT
                                            !.recorded = Put(@, entityConfig.person,
                                                LastOf(Append(SeqAt(@, entityConfig.person),
                                                              currentPosition), Window)),
                                            !.processed = Put(@, entityConfig.person,
                                                IF entityConfig.person \in DOMAIN @
                                                THEN @[entityConfig.person] + 1 ELSE 1),
                                            !.positionHistory =
                                                UpdatePositionHistory(@, entityConfig.person,
                                                                      currentPosition),
                                            !.entityCache = Put(@, entityConfig.person, record)],
                                         view, i + 1, TRUE)

\* fetchEntities that first evicts the cache records of the entities the host no
\* longer knows
FetchEntitiesEvictsMissing(s, cfg, view) ==
    LET ReturnNull(t) ==
            Emit([t EXCEPT !.ret = None], [op |-> "fetchEntities", returned |-> FALSE])
        ReturnData(u) ==
            Emit([u EXCEPT !.ret = Some(u.ret)], [op |-> "fetchEntities", returned |-> TRUE])
        AfterLoop(t) ==
            IF ~t.ret THEN ReturnNull(t) ELSE ReturnData(PrepareEntityData(t, cfg))
        known == {k \in DOMAIN s.entityCache : IsSome(view.persons[k])}
    IN  IF ~s.hass THEN ReturnNull(s)
        ELSE AfterLoop(FetchLoop([s EXCEPT !.entityCache = [k \in known |-> @[k]]],
                                 view, 1, FALSE))

\* fetchEntities that returns a snapshot whenever the cache holds a record
FetchEntitiesReturnsCached(s, cfg, view) ==
    LET ReturnNull(t) ==
            Emit([t EXCEPT !.ret = None], [op |-> "fetchEntities", returned |-> FALSE])
        ReturnData(u) ==
            Emit([u EXCEPT !.ret = Some(u.ret)], [op |-> "fetchEntities", returned |-> TRUE])
        AfterLoop(t) ==
            IF ~HasData(t) THEN ReturnNull(t) ELSE ReturnData(PrepareEntityData(t, cfg))
    IN  IF ~s.hass THEN ReturnNull(s) ELSE AfterLoop(FetchLoop(s, view, 1, FALSE))

\* fetchEntities: s.ret is None for null, Some(snapshot) otherwise
FetchEntities(s, cfg, view) ==
    LET ReturnNull(t) ==
            Emit([t EXCEPT !.ret = None], [op |-> "fetchEntities", returned |-> FALSE])
        ReturnData(u) ==
            Emit([u EXCEPT !.ret = Some(u.ret)], [op |-> "fetchEntities", returned |-> TRUE])
        AfterLoop(t) ==
            IF ~t.ret THEN ReturnNull(t) ELSE ReturnData(PrepareEntityData(t, cfg))
    IN  IF ~s.hass THEN ReturnNull(s) ELSE AfterLoop(FetchLoop(s, view, 1, FALSE))

-----------------------------------------------------------------------------
(* The host's state table, as one fetch cycle sees it *)

Gps(lat, lon) == Some([latitude |-> lat, longitude |-> lon])

PersonObjects ==
    {None,                                                  \* no such entity
     Some([state |-> "home", attributes |-> None]),         \* reading a coordinate throws
     Some([state |-> "home", attributes |-> Gps(None, Some(Lon))]),
     Some([state |-> "home", attributes |-> Gps(Some(0), Some(Lon))]),
     Some([state |-> "home", attributes |-> Gps(Some(1), None)]),
     Some([state |-> "home", attributes |-> Gps(Some(1), Some(0))]),
     Some([state |-> "home", attributes |-> Gps(Some(1), Some(Lon))]),
     Some([state |-> "home", attributes |-> Gps(Some(2), Some(Lon))])}

SensorObjects == {None} \cup {Some([state |-> st]) : st \in SensorStates}

At(lat) == Some([state |-> "home", attributes |-> Gps(Some(lat), Some(Lon))])

Views(aObjects, bObjects, sObjects) ==
    {[persons |-> [p \in Persons |-> IF p = "person.a" THEN a ELSE b],
      sensors |-> [x \in Sensors |-> o]] :
        a \in aObjects, b \in bObjects, o \in sObjects}

HostViews == Views(PersonObjects, {None, At(1)}, SensorObjects)
HistoryViews ==
    Views({None, Some([state |-> "home", attributes |-> None]), At(0), At(1), At(2)},
          {None, At(1)}, {None})
FetcherViews == Views({None, At(1), At(2)}, {None}, {None, Some([state |-> "running"])})

EntityConfig(p, a) == [person |-> p, activity |-> a]

EntityLists ==
    {<<>>,
     <<EntityConfig("person.a", "sensor.a")>>,
     <<EntityConfig("person.a", "sensor.a"), EntityConfig("person.b", "")>>}

FetcherConfigs == {None} \cup {Some([activity_source |-> a]) : a \in {"sensor", "speed_predicted"}}

-----------------------------------------------------------------------------
(* ConfigManager *)

DEFAULT_CONFIG ==
    [map_provider |-> "osm", update_interval |-> 10000, marker_size |-> "medium",
     activity_source |-> "sensor", speed_source |-> Missing, zones |-> "default",
     debug |-> FALSE]

\* a || b for strings
OrStr(a, b) == IF TruthyStr(a) THEN a ELSE b

\* The merge of a user configuration with the defaults
Merged(cfg) ==
    [entities |-> cfg.entities.items,
     map_provider |-> OrStr(cfg.map_provider, DEFAULT_CONFIG.map_provider),
     update_interval |-> IF TruthyNum(cfg.update_interval)
                         THEN Val(cfg.update_interval)
                         ELSE DEFAULT_CONFIG.update_interval,
     marker_size |-> OrStr(cfg.marker_size, DEFAULT_CONFIG.marker_size),
     activity_source |-> OrStr(cfg.activity_source, DEFAULT_CONFIG.activity_source),
     speed_source |-> OrStr(cfg.speed_source, DEFAULT_CONFIG.speed_source),
     zones |-> OrStr(cfg.zones, DEFAULT_CONFIG.zones),
     debug |-> cfg.debug \/ DEFAULT_CONFIG.debug]

\* throw new Error(message): s.error is the message, up to the offending value
Throw(s, message) == [s EXCEPT !.threw = TRUE, !.error = message]

\* ConfigManager.setConfig without the validation of the two source options
ConfigManagerSetConfigAcceptsAnySource(s, cfg) ==
    IF ~cfg.entities.truthy \/ ~cfg.entities.array
    THEN Throw(s, "You need to define entities")
    ELSE [s EXCEPT !.config = Some(Merged(cfg))]

\* ConfigManager.setConfig taking any truthy entities value for a list
ConfigManagerSetConfigAnyTruthyEntities(s, cfg) ==
    IF ~cfg.entities.truthy
    THEN Throw(s, "You need to define entities")
    ELSE IF TruthyStr(cfg.speed_source)
            /\ cfg.speed_source \notin {"calculated", "sensor"}
    THEN Throw(s, "Invalid speed_source")
    ELSE IF TruthyStr(cfg.activity_source)
            /\ cfg.activity_source \notin {"sensor", "speed_predicted"}
    THEN Throw(s, "Invalid activity_source")
    ELSE [s EXCEPT !.config = Some(Merged(cfg))]

\* ConfigManager.setConfig: the user configuration is rejected (threw is TRUE) or
\* merged with the defaults.  update_interval is in thousandths of a second.
ConfigManagerSetConfig(s, cfg) ==
    IF ~cfg.entities.truthy \/ ~cfg.entities.array
    THEN Throw(s, "You need to define entities")
    ELSE IF TruthyStr(cfg.speed_source)
            /\ cfg.speed_source \notin {"calculated", "sensor"}
    THEN Throw(s, "Invalid speed_source")
    ELSE IF TruthyStr(cfg.activity_source)
            /\ cfg.activity_source \notin {"sensor", "speed_predicted"}
    THEN Throw(s, "Invalid activity_source")
    ELSE [s EXCEPT !.config = Some(Merged(cfg))]

\* hasChanged(oldConfig, properties) against the configuration in force
HasChanged(s, oldConfig, properties) ==
    IF ~IsSome(oldConfig) THEN FALSE
    ELSE \E prop \in properties : Val(oldConfig)[prop] # Val(s.config)[prop]

VisualProps == {"zones", "marker_size"}

-----------------------------------------------------------------------------
(* IframeMessenger *)

\* the iframe element has a window while the card is in the document
HasContentWindow(s) == s.iframe /\ s.connected

\* setIframe without the reset of the ready flag
SetIframeKeepsReady(s) ==
    LET a == [s EXCEPT !.iframe = TRUE]
    IN  Emit(a, [op |-> "setIframe", readyBefore |-> s.iframeReady,
                 readyAfter |-> a.iframeReady])

SetIframe(s) ==
    LET a == [s EXCEPT !.iframe = TRUE, !.iframeReady = FALSE]
    IN  Emit(a, [op |-> "setIframe", readyBefore |-> s.iframeReady,
                 readyAfter |-> a.iframeReady])

MarkReady(s) == [s EXCEPT !.iframeReady = TRUE]

StartListening(s) ==
    LET removed == IF s.messageListener /\ s.listeners > 0 THEN s.listeners - 1 ELSE s.listeners
    IN  [s EXCEPT !.messageListener = TRUE, !.listeners = removed + 1]

StopListening(s) ==
    IF s.messageListener
    THEN [s EXCEPT !.messageListener = FALSE,
                   !.listeners = IF @ > 0 THEN @ - 1 ELSE @]
    ELSE s

\* sendData resetting the retry counter before it posts the message
SendDataResetsBeforePosting(s, data, caller) ==
    LET call == [op |-> "sendData", caller |-> caller, ready |-> s.iframeReady,
                 data |-> data, retryBefore |-> s.retryCount]
    IN  IF ~HasContentWindow(s) \/ ~IsSome(data) \/ DOMAIN Val(data) = {}
        THEN Emit([s EXCEPT !.ret = FALSE],
                  call @@ [posted |-> FALSE, result |-> FALSE, retryAfter |-> s.retryCount])
        ELSE Emit([s EXCEPT !.retryCount = 0, !.ret = ~s.postMessageThrows],
                  call @@ [posted |-> ~s.postMessageThrows,
                           result |-> ~s.postMessageThrows, retryAfter |-> 0])

\* sendData: s.ret is the boolean returned
SendData(s, data, caller) ==
    LET call == [op |-> "sendData", caller |-> caller, ready |-> s.iframeReady,
                 data |-> data, retryBefore |-> s.retryCount]
    IN  IF ~HasContentWindow(s)
        THEN Emit([s EXCEPT !.ret = FALSE],
                  call @@ [posted |-> FALSE, result |-> FALSE, retryAfter |-> s.retryCount])
        ELSE IF ~IsSome(data) \/ DOMAIN Val(data) = {}
        THEN Emit([s EXCEPT !.ret = FALSE],
                  call @@ [posted |-> FALSE, result |-> FALSE, retryAfter |-> s.retryCount])
        ELSE IF s.postMessageThrows   \* caught: the counter is not reached
        THEN Emit([s EXCEPT !.ret = FALSE],
                  call @@ [posted |-> FALSE, result |-> FALSE, retryAfter |-> s.retryCount])
        ELSE Emit([s EXCEPT !.retryCount = 0, !.ret = TRUE],
                  call @@ [posted |-> TRUE, result |-> TRUE, retryAfter |-> 0])

\* sendConfigUpdate: s.ret is the boolean returned.  The method has four parameters
\* (zones among them); markerSize is the fifth argument of the card's call, which
\* binds to nothing, and the message has no marker_size key.
SendConfigUpdate(s, zones, markerSize) ==
    LET call == [op |-> "sendConfigUpdate", zones |-> zones, passed |-> markerSize,
                 marker_size |-> Missing]
    IN  IF ~HasContentWindow(s)
        THEN Emit([s EXCEPT !.ret = FALSE], call @@ [posted |-> FALSE, result |-> FALSE])
        ELSE IF s.postMessageThrows
        THEN Emit([s EXCEPT !.ret = FALSE], call @@ [posted |-> FALSE, result |-> FALSE])
        ELSE Emit([s EXCEPT !.ret = TRUE], call @@ [posted |-> TRUE, result |-> TRUE])

IncrementRetryCount(s) == [s EXCEPT !.retryCount = @ + 1]

-----------------------------------------------------------------------------
(* Timers of the window *)

\* A handle the window has not given out: handles are opaque to the card, and the
\* update timers get the odd ones, the retry timers the even ones
FreshId(s, kind) ==
    LET base == IF kind = "update" THEN 1 ELSE 2
        free == {i \in {base + 2 * k : k \in 0..Cardinality(s.timers)} :
                    \A t \in s.timers : t.id # i}
    IN  CHOOSE i \in free : \A j \in free : i <= j

\* setInterval: s.ret is the handle
SetInterval(s, kind, period) ==
    LET id == FreshId(s, kind)
    IN  [s EXCEPT !.timers = @ \cup {[id |-> id, kind |-> kind, period |-> period]},
                  !.ret = id]

ClearInterval(s, handle) == [s EXCEPT !.timers = {t \in @ : t.id # handle}]

-----------------------------------------------------------------------------
(* MapBadgeCard *)

RetryPeriod == 5000
MaxRetries == 3
StaleAfter == 30000

\* _fetchEntities up to its await: s.ret is what fetchEntities resolved to
FetchEntitiesStart(s, view) == FetchEntities(s, s.config, view)

\* _fetchEntities after its await, sending whether or not the messenger is ready
FetchEntitiesDoneSendsUnready(s, data) ==
    IF ~IsSome(data) THEN s ELSE SendData(s, data, "fetch")

\* _fetchEntities after its await, keeping a snapshot that is already pending
FetchEntitiesDoneKeepsFirst(s, data) ==
    IF ~IsSome(data) THEN s
    ELSE IF s.iframeReady THEN SendData(s, data, "fetch")
    ELSE IF IsSome(s.pendingData) THEN s
    ELSE [s EXCEPT !.pendingData = data]

\* _fetchEntities after its await
FetchEntitiesDone(s, data) ==
    IF ~IsSome(data) THEN s
    ELSE IF s.iframeReady THEN SendData(s, data, "fetch")
    ELSE [s EXCEPT !.pendingData = data]

\* _fetchEntities with nothing between the call and its continuation
CardFetchEntities(s, view) ==
    LET Resume(a) == FetchEntitiesDone(a, a.ret)
    IN  Resume(FetchEntitiesStart(s, view))

CardSendConfigUpdate(s) ==
    SendConfigUpdate(s, Val(s.config).zones, Val(s.config).marker_size)

\* sendData(prepareEntityData(getConfig()))
SendPrepared(s, caller) ==
    LET Send(a) == SendData(a, Some(a.ret), caller)
    IN  Send(PrepareEntityData(s, s.config))

\* _sendPendingOrCachedData with the cache consulted before the pending slot
SendPendingOrCachedDataCacheFirst(s, view) ==
    IF HasData(s) THEN SendPrepared(s, "flush")
    ELSE IF IsSome(s.pendingData)
    THEN [SendData(s, s.pendingData, "flush") EXCEPT !.pendingData = None]
    ELSE CardFetchEntities(s, view)

\* _sendPendingOrCachedData leaving the snapshot it sent in the pending slot
SendPendingOrCachedDataKeepsSlot(s, view) ==
    IF IsSome(s.pendingData)
    THEN SendData(s, s.pendingData, "flush")
    ELSE IF HasData(s) THEN SendPrepared(s, "flush")
    ELSE CardFetchEntities(s, view)

SendPendingOrCachedData(s, view) ==
    IF IsSome(s.pendingData)
    THEN [SendData(s, s.pendingData, "flush") EXCEPT !.pendingData = None]
    ELSE IF HasData(s) THEN SendPrepared(s, "flush")
    ELSE CardFetchEntities(s, view)

SetupRetryInterval(s) ==
    LET Keep(b) == [b EXCEPT !.retryInterval = b.ret]
    IN  Keep(SetInterval(IF s.retryInterval # 0 THEN ClearInterval(s, s.retryInterval)
                         ELSE s,
                         "retry", RetryPeriod))

\* _setupIframe for the iframe element that _render has just created
SetupIframe(s) ==
    LET OnReady(a) == [a EXCEPT !.callbacks = TRUE]
    IN  SetupRetryInterval(StartListening(OnReady(SetIframe(s))))

\* _render: the markup, and with it the iframe element, is replaced
Render(s) ==
    IF ~IsSome(s.config) THEN s
    ELSE SetupIframe(s)

\* the callback of the retry interval without the test of the data's age
RetryCallbackIgnoresAge(s) ==
    IF s.iframeReady /\ s.retryCount < MaxRetries /\ HasData(s)
    THEN IncrementRetryCount(SendPrepared(s, "retry"))
    ELSE s

\* the callback of the retry interval
RetryCallback(s) ==
    IF s.iframeReady /\ s.retryCount < MaxRetries /\ HasData(s)
    THEN LET lastUpdate == GetLastUpdateTime(s)
         IN  IF s.now - lastUpdate < StaleAfter
             THEN IncrementRetryCount(SendPrepared(s, "retry"))
             ELSE s
    ELSE s

\* _startEntityUpdates; without a configuration reading update_interval throws
StartEntityUpdates(s, view) ==
    LET Keep(c, data) == [c EXCEPT !.updateInterval = c.ret, !.ret = data]
        Schedule(a) ==
            IF ~IsSome(s.config) THEN Throw(a, "TypeError")
            ELSE Keep(SetInterval(IF a.updateInterval # 0
                                  THEN ClearInterval(a, a.updateInterval) ELSE a,
                                  "update", Val(s.config).update_interval),
                      a.ret)
    IN  Schedule(FetchEntitiesStart(s, view))

\* set hass starting the updates at every assignment
HassSetterAlwaysStarts(s, h, view) ==
    LET starts == h
        Finish(d) == IF d.threw THEN Emit(d, [op |-> "throw", from |-> "hass"]) ELSE d
        Resume(c, data) == Finish(IF starts THEN FetchEntitiesDone(c, data) ELSE c)
        SendPending(b) ==
            Resume(IF ~b.threw /\ h /\ b.iframeReady /\ IsSome(b.pendingData)
                   THEN [SendData(b, b.pendingData, "hass") EXCEPT !.pendingData = None]
                   ELSE b,
                   IF starts THEN b.ret ELSE None)
        Start(a) == SendPending(IF starts THEN StartEntityUpdates(a, view) ELSE a)
    IN  Start([s EXCEPT !.hass = h])

\* set hass; the continuation of the fetch it started runs after the setter's body
HassSetter(s, h, view) ==
    LET starts == h /\ s.updateInterval = 0
        Finish(d) == IF d.threw THEN Emit(d, [op |-> "throw", from |-> "hass"]) ELSE d
        Resume(c, data) == Finish(IF starts THEN FetchEntitiesDone(c, data) ELSE c)
        SendPending(b) ==
            Resume(IF ~b.threw /\ h /\ b.iframeReady /\ IsSome(b.pendingData)
                   THEN [SendData(b, b.pendingData, "hass") EXCEPT !.pendingData = None]
                   ELSE b,
                   IF starts THEN b.ret ELSE None)
        Start(a) == SendPending(IF starts THEN StartEntityUpdates(a, view) ELSE a)
    IN  Start([s EXCEPT !.hass = h])

\* setConfig fetching after a change of source whether or not the updates run
CardSetConfigRefetchesAlways(s, userConfig, view) ==
    LET oldConfig == s.config
        Refetch(c) ==
            LET activitySourceChanged == HasChanged(c, oldConfig, {"activity_source"})
                speedSourceChanged == HasChanged(c, oldConfig, {"speed_source"})
            IN  IF activitySourceChanged \/ speedSourceChanged
                THEN CardFetchEntities(c, view)
                ELSE c
        Show(b) ==
            LET visualPropsChanged == HasChanged(b, oldConfig, VisualProps)
            IN  Refetch(IF visualPropsChanged /\ b.iframe /\ b.iframeReady
                        THEN CardSendConfigUpdate(b)
                        ELSE Render(b))
        Configure(a) ==
            IF a.threw THEN Emit(a, [op |-> "throw", from |-> "setConfig"])
            ELSE Show([a EXCEPT !.entities = Val(a.config).entities])
    IN  Configure(ConfigManagerSetConfig(s, userConfig))

\* MapBadgeCard.setConfig
CardSetConfig(s, userConfig, view) ==
    LET oldConfig == s.config
        Refetch(c) ==
            LET activitySourceChanged == HasChanged(c, oldConfig, {"activity_source"})
                speedSourceChanged == HasChanged(c, oldConfig, {"speed_source"})
            IN  IF (activitySourceChanged \/ speedSourceChanged) /\ c.updateInterval # 0
                THEN CardFetchEntities(c, view)
                ELSE c
        Show(b) ==
            LET visualPropsChanged == HasChanged(b, oldConfig, VisualProps)
            IN  Refetch(IF visualPropsChanged /\ b.iframe /\ b.iframeReady
                        THEN CardSendConfigUpdate(b)
                        ELSE Render(b))
        Configure(a) ==
            IF a.threw THEN Emit(a, [op |-> "throw", from |-> "setConfig"])
            ELSE Show([a EXCEPT !.entities = Val(a.config).entities])
    IN  Configure(ConfigManagerSetConfig(s, userConfig))

\* disconnectedCallback without its second block: the retry timer is kept
DisconnectedCallbackKeepsRetry(s) ==
    StopListening(IF s.updateInterval # 0
                  THEN [ClearInterval(s, s.updateInterval) EXCEPT !.updateInterval = 0]
                  ELSE s)

\* disconnectedCallback
DisconnectedCallback(s) ==
    LET a == IF s.updateInterval # 0
             THEN [ClearInterval(s, s.updateInterval) EXCEPT !.updateInterval = 0]
             ELSE s
        b == IF a.retryInterval # 0
             THEN [ClearInterval(a, a.retryInterval) EXCEPT !.retryInterval = 0]
             ELSE a
    IN  StopListening(b)

\* a message event whose data is null or undefined
NoData == "no data"

\* the listener with a default case that acknowledges
MessageListenerDefaultsToAck(s, type, view) ==
    IF type = NoData THEN s
    ELSE CASE type = "iframe-ready" ->
                  LET b == [s EXCEPT !.iframeReady = TRUE]
                  IN  IF b.callbacks THEN SendPendingOrCachedData(b, view) ELSE b
           [] type = "request-data" ->
                  IF s.callbacks THEN CardFetchEntities(s, view) ELSE s
           [] OTHER -> [s EXCEPT !.retryCount = 0]

\* the listener installed by startListening, for a message of the given type
MessageListener(s, type, view) ==
    IF type = NoData THEN s ELSE
    CASE type = "iframe-ready" ->
             LET b == [s EXCEPT !.iframeReady = TRUE]
             IN  IF b.callbacks THEN SendPendingOrCachedData(b, view) ELSE b
      [] type = "request-data" ->
             IF s.callbacks THEN CardFetchEntities(s, view) ELSE s
      [] type = "data-received" -> [s EXCEPT !.retryCount = 0]
      [] OTHER -> s

\* every listener registered on the window receives the message
RECURSIVE Dispatch(_, _, _, _)
Dispatch(s, type, view, n) ==
    IF n = 0 THEN s ELSE Dispatch(MessageListener(s, type, view), type, view, n - 1)

\* iframe.onload: the settle timer and the backup timer are scheduled
OnLoad(s) == [s EXCEPT !.timeouts = @ \cup {[stage |-> "settle"]}]

\* the 500 ms timer of a load; the 2000 ms timer of that load is still to come
SettleTimeout(s, x, view) ==
    LET a == [s EXCEPT !.timeouts = (@ \ {x}) \cup {[x EXCEPT !.stage = "backup"]}]
    IN  SendPendingOrCachedData(MarkReady(a), view)

\* the 2000 ms timer of a load
BackupTimeout(s, x) ==
    LET a == [s EXCEPT !.timeouts = @ \ {x}]
    IN  IF HasData(a) THEN SendPrepared(a, "backup") ELSE a

-----------------------------------------------------------------------------
(* The state as one record, and back *)

Cur == [now |-> now, hass |-> hass, entities |-> entities, entityCache |-> entityCache,
        positionHistory |-> positionHistory,
        lastPredictedActivity |-> lastPredictedActivity,
        config |-> config, updateInterval |-> updateInterval,
        retryInterval |-> retryInterval, pendingData |-> pendingData, iframe |-> iframe,
        iframeReady |-> iframeReady, retryCount |-> retryCount,
        messageListener |-> messageListener, callbacks |-> callbacks,
        listeners |-> listeners, timers |-> timers, timeouts |-> timeouts,
        connected |-> connected,
        recorded |-> recorded, processed |-> processed, resent |-> 0, calls |-> calls,
        log |-> <<>>,
        ret |-> None, threw |-> FALSE, error |-> "", postMessageThrows |-> FALSE]

RECURSIVE Sum(_, _)
Sum(f, keys) == IF keys = {} THEN 0
                ELSE LET k == CHOOSE x \in keys : TRUE
                     IN  f[k] + Sum(f, keys \ {k})

\* the handler's result s becomes the next state, within the bound on recorded samples
Commit(s, limit) ==
    /\ Sum(s.processed, DOMAIN s.processed) <= limit
    /\ now' = s.now
    /\ hass' = s.hass
    /\ entities' = s.entities
    /\ entityCache' = s.entityCache
    /\ positionHistory' = s.positionHistory
    /\ lastPredictedActivity' = s.lastPredictedActivity
    /\ config' = s.config
    /\ updateInterval' = s.updateInterval
    /\ retryInterval' = s.retryInterval
    /\ pendingData' = s.pendingData
    /\ iframe' = s.iframe
    /\ iframeReady' = s.iframeReady
    /\ retryCount' = s.retryCount
    /\ messageListener' = s.messageListener
    /\ callbacks' = s.callbacks
    /\ listeners' = s.listeners
    /\ timers' = s.timers
    /\ timeouts' = s.timeouts
    /\ connected' = s.connected
    /\ recorded' = s.recorded
    /\ processed' = s.processed
    /\ resent' = s.resent
    /\ calls' = s.calls
    /\ log' = s.log

Init ==
    /\ now = 0
    /\ hass = FALSE
    /\ entities = <<>>
    /\ entityCache = <<>>
    /\ positionHistory = <<>>
    /\ lastPredictedActivity = <<>>
    /\ config = None
    /\ updateInterval = 0
    /\ retryInterval = 0
    /\ pendingData = None
    /\ iframe = FALSE
    /\ iframeReady = FALSE
    /\ retryCount = 0
    /\ messageListener = FALSE
    /\ callbacks = FALSE
    /\ listeners = 0
    /\ timers = {}
    /\ timeouts = {}
    /\ connected = FALSE
    /\ recorded = <<>>
    /\ processed = <<>>
    /\ resent = 0
    /\ calls = <<>>
    /\ log = <<>>

\* time passes
Advance(d, maxNow, limit) ==
    /\ now + d <= maxNow
    /\ Commit([Cur EXCEPT !.now = now + d, !.resent = resent], limit)

-----------------------------------------------------------------------------
(* The fetcher driven through its public methods *)

SetHass(h, limit) == Commit([Cur EXCEPT !.hass = h], limit)

\* setEntities that drops the records of the entities no longer configured
SetEntitiesPurges(list, limit) ==
    LET kept == {list[i].person : i \in DOMAIN list}
        Purge(f) == [k \in DOMAIN f \cap kept |-> f[k]]
    IN  Commit([Cur EXCEPT !.entities = list,
                           !.entityCache = Purge(@),
                           !.positionHistory = Purge(@),
                           !.lastPredictedActivity = Purge(@)],
               limit)

SetEntities(list, limit) == Commit([Cur EXCEPT !.entities = list], limit)

CallFetchEntities(cfg, view, limit) == Commit(FetchEntities(Cur, cfg, view), limit)

CallPrepareEntityData(cfg, limit) == Commit(PrepareEntityData(Cur, cfg), limit)

\* activity resolution: one entity, every configuration
NextFetcher ==
    \/ \E d \in FetcherSteps : Advance(d, MaxNow, MaxSamples)
    \/ \E h \in BOOLEAN : SetHass(h, MaxSamples)
    \/ \E list \in {l \in EntityLists : Len(l) <= 1} : SetEntities(list, MaxSamples)
    \/ \E cfg \in FetcherConfigs, view \in FetcherViews :
           CallFetchEntities(cfg, view, MaxSamples)
    \/ \E cfg \in FetcherConfigs : CallPrepareEntityData(cfg, MaxSamples)

SpecFetcher == Init /\ [][NextFetcher]_vars

\* the position history: two entities, no configuration
NextHistory ==
    \/ \E d \in FetcherSteps : Advance(d, MaxNow, HistorySamples)
    \/ \E h \in BOOLEAN : SetHass(h, HistorySamples)
    \/ \E list \in EntityLists : SetEntities(list, HistorySamples)
    \/ \E view \in HistoryViews : CallFetchEntities(None, view, HistorySamples)

SpecHistory == Init /\ [][NextHistory]_vars

-----------------------------------------------------------------------------
(* The card in its page *)

Arr(list) == [array |-> TRUE, truthy |-> TRUE, items |-> list]

BaseUser ==
    [entities |-> Arr(<<EntityConfig("person.a", "sensor.a")>>),
     map_provider |-> Missing, update_interval |-> None, marker_size |-> Missing,
     activity_source |-> Missing, speed_source |-> Missing, zones |-> Missing,
     debug |-> FALSE]

\* the configurations the host may pass: the base one with one key changed
UserConfigs ==
    {BaseUser}
    \cup {[BaseUser EXCEPT !.activity_source = x] : x \in {"speed_predicted", "bogus"}}
    \cup {[BaseUser EXCEPT !.speed_source = x] : x \in {"bogus"}}
    \cup {[BaseUser EXCEPT !.marker_size = "large"]}

CardViews == Views({None, At(1)}, {None}, {Some([state |-> "running"])})

MessageTypes == {"iframe-ready", "request-data", "data-received", "other", NoData}

\* the messages whose handling reads the host's state table
FetchingTypes == {"iframe-ready", "request-data"}

\* a view for the handlers that do not read the host's state table
NoView == CHOOSE view \in CardViews : TRUE

Done(s) == Commit(s, CardSamples)

SetConfig(userConfig, view) == Done(CardSetConfig(Cur, userConfig, view))

SetHassProperty(h, view) == Done(HassSetter(Cur, h, view))

\* the card is put into the document; its iframe, if any, gets a window
Connect ==
    /\ ~connected
    /\ Done([Cur EXCEPT !.connected = TRUE])

\* the card is taken out of the document
Disconnect ==
    /\ connected
    /\ Done(DisconnectedCallback([Cur EXCEPT !.connected = FALSE]))

\* the iframe finishes a load; a renderer may reload at any time
IframeLoad ==
    /\ iframe /\ connected
    /\ Done(OnLoad(Cur))

FireSettle(view) ==
    \E x \in timeouts : x.stage = "settle" /\ Done(SettleTimeout(Cur, x, view))

FireBackup ==
    \E x \in timeouts : x.stage = "backup" /\ Done(BackupTimeout(Cur, x))

UpdateTick(view) ==
    \E x \in timers : x.kind = "update" /\ Done(CardFetchEntities(Cur, view))

\* a tick of the retry interval; the run of ticks that posted grows or ends
RetryTick ==
    \E x \in timers :
        /\ x.kind = "retry"
        /\ LET Posted(a) ==
                   \E i \in DOMAIN a.log : a.log[i].op = "sendData" /\ a.log[i].posted
               Counted(a) ==
                   [a EXCEPT !.resent = IF Posted(a) THEN Min(resent + 1, MaxRetries + 1)
                                        ELSE 0]
           IN  Done(Counted(RetryCallback(Cur)))

\* a message event on the window; any frame of the page may post one
Message(type, view) ==
    /\ listeners > 0
    /\ Done(Dispatch(Cur, type, view, listeners))

Tick(d) == Advance(d, CardMaxNow, CardSamples)

Next ==
    \/ \E d \in CardSteps : Tick(d)
    \/ \E userConfig \in UserConfigs, view \in CardViews : SetConfig(userConfig, view)
    \/ \E view \in CardViews : SetHassProperty(TRUE, view)
    \/ Connect
    \/ Disconnect
    \/ IframeLoad
    \/ \E view \in CardViews : FireSettle(view)
    \/ FireBackup
    \/ \E view \in CardViews : UpdateTick(view)
    \/ RetryTick
    \/ \E type \in FetchingTypes, view \in CardViews : Message(type, view)
    \/ \E type \in MessageTypes \ FetchingTypes : Message(type, NoView)

Spec == Init /\ [][Next]_vars

-----------------------------------------------------------------------------
(* The card's configuration *)

\* an entities value that is no array: undefined, null, 0, '' or a string, an object
NotArray(truthy) == [array |-> FALSE, truthy |-> truthy, items |-> <<>>]

\* update_interval values a YAML configuration may hold, in thousandths of a second
Intervals == {0, -5000, 500, 1000, 30000}

\* the configurations the host may pass: the base one with one key changed
ConfigInputs ==
    {BaseUser}
    \cup {[BaseUser EXCEPT !.entities = x] :
              x \in {NotArray(FALSE), NotArray(TRUE), Arr(<<>>)}}
    \cup {[BaseUser EXCEPT !.update_interval = Some(x)] : x \in Intervals}
    \cup {[BaseUser EXCEPT !.activity_source = x] :
              x \in {"sensor", "speed_predicted", "bogus", ""}}
    \cup {[BaseUser EXCEPT !.speed_source = x] :
              x \in {"calculated", "sensor", "bogus", ""}}

NextConfig ==
    \/ \E userConfig \in ConfigInputs, view \in CardViews : SetConfig(userConfig, view)
    \/ \E view \in CardViews : SetHassProperty(TRUE, view)
    \/ \E view \in CardViews : UpdateTick(view)

SpecConfig == Init /\ [][NextConfig]_vars

-----------------------------------------------------------------------------
(* The fetcher's speed estimate and activity prediction, called on their own *)

\* the longest stored history drawn
CallSamples == 2

CallTimes == {0, 2500, 4900, 5000}

\* stored samples: two places of one meridian
CallPoints ==
    {[latitude |-> lat, longitude |-> Lon, timestamp |-> t] : lat \in {0, 1}, t \in CallTimes}

\* the position of the fetch under way
CallPositions ==
    {[latitude |-> lat, longitude |-> Lon, timestamp |-> t] :
        lat \in {0, 1}, t \in CallTimes \cup {7500, 10000}}

\* the history map: nothing stored for the entity, or one to CallSamples samples
CallHistories ==
    {<<>>} \cup {[e \in {"person.a"} |-> h] :
                    h \in UNION {[1..n -> CallPoints] : n \in 1..CallSamples}}

\* speeds in thousandths of a km/h, and no speed
CallSpeeds ==
    {None} \cup {Some(v) : v \in {0, 500, 999, 1000, 1001, 6999, 7000, 7001,
                                   24999, 25000, 25001, 100000}}

InitCalls ==
    /\ now = 0
    /\ hass = FALSE
    /\ entities = <<>>
    /\ entityCache = <<>>
    /\ positionHistory \in CallHistories
    /\ lastPredictedActivity = <<>>
    /\ config = None
    /\ updateInterval = 0
    /\ retryInterval = 0
    /\ pendingData = None
    /\ iframe = FALSE
    /\ iframeReady = FALSE
    /\ retryCount = 0
    /\ messageListener = FALSE
    /\ callbacks = FALSE
    /\ listeners = 0
    /\ timers = {}
    /\ timeouts = {}
    /\ connected = FALSE
    /\ recorded = <<>>
    /\ processed = <<>>
    /\ resent = 0
    /\ calls = <<>>
    /\ log = <<>>

CallPredictActivity(speedKmh) ==
    Commit(Emit(Cur, [op |-> "predictActivity", speedKmh |-> speedKmh,
                      result |-> PredictActivity(speedKmh)]), 0)

CallCalculateSpeed(entityId, currentPosition) ==
    Commit(Emit(Cur, [op |-> "calculateSpeed", entityId |-> entityId,
                      currentPosition |-> currentPosition,
                      result |-> CalculateSpeed(positionHistory, entityId,
                                                currentPosition)]), 0)

NextCalls ==
    \/ \E speedKmh \in CallSpeeds : CallPredictActivity(speedKmh)
    \/ \E currentPosition \in CallPositions :
           CallCalculateSpeed("person.a", currentPosition)

SpecCalls == InitCalls /\ [][NextCalls]_vars

-----------------------------------------------------------------------------
(* The messenger driven through its public methods *)

\* the retry counter is followed up to this value
MessengerRetries == 3

\* what a caller may hand to sendData: nothing, an empty object, a snapshot
MessengerData ==
    {None, Some(<<>>), Some([e \in {"person.a"} |-> [state |-> "home"]])}

MarkerSizes == {"medium", "large"}

CallSetIframe == Done(SetIframe(Cur))

CallMarkReady == Done(MarkReady(Cur))

CallIncrementRetryCount ==
    /\ retryCount < MessengerRetries
    /\ Done(IncrementRetryCount(Cur))

\* postMessageThrows: the message cannot be cloned, or the window refuses it
CallSendData(data, postMessageThrows) ==
    Done(SendData([Cur EXCEPT !.postMessageThrows = postMessageThrows], data, "call"))

CallSendConfigUpdate(markerSize, postMessageThrows) ==
    Done(SendConfigUpdate([Cur EXCEPT !.postMessageThrows = postMessageThrows],
                          "default", markerSize))

NextMessenger ==
    \/ CallSetIframe
    \/ Connect
    \/ CallMarkReady
    \/ CallIncrementRetryCount
    \/ \E data \in MessengerData, postMessageThrows \in BOOLEAN :
           CallSendData(data, postMessageThrows)
    \/ \E markerSize \in MarkerSizes, postMessageThrows \in BOOLEAN :
           CallSendConfigUpdate(markerSize, postMessageThrows)

SpecMessenger == Init /\ [][NextMessenger]_vars

-----------------------------------------------------------------------------
(* Position history *)

Count(e) == IF e \in DOMAIN processed THEN processed[e] ELSE 0


\* C1: the history of every entity is the last min(n, 5) samples recorded for it, in
\* recording order, n being the number of times the entity was processed; it never
\* holds more than 5 samples and holds exactly 5 once n >= 5.
C1_HistoryIsLastFive ==
    \A e \in Persons :
        LET h == SeqAt(positionHistory, e)
        IN  /\ h = LastOf(SeqAt(recorded, e), Min(Count(e), 5))
            /\ Len(h) <= 5
            /\ (Count(e) >= 5 => Len(h) = 5)

\* an entity was processed six times or more and the evicted sample differs from
\* the oldest one kept
C1_Witness ==
    \E e \in DOMAIN recorded :
        /\ Count(e) >= 6
        /\ recorded[e][1] # recorded[e][2]
        /\ positionHistory[e][1] = recorded[e][2]

-----------------------------------------------------------------------------
(* Activity resolution *)

Prepared == {i \in DOMAIN log : log[i].op = "prepareEntityData"}

C4_SensorModeIgnoresPrediction ==
    \A i \in Prepared :
        log[i].source \in {"sensor", Missing} =>
            /\ log[i].memoryAfter = log[i].memoryBefore
            /\ \A e \in DOMAIN log[i].data :
                   LET data == log[i].cache[e]
                   IN  log[i].data[e].activity =
                           IF IsSome(data.activity) THEN Val(data.activity).state
                           ELSE "unknown"

\* sensor mode with a speed estimate, a prediction and a sticky label at hand
C4_Witness ==
    \E i \in Prepared :
        /\ log[i].source = "sensor"
        /\ \E e \in DOMAIN log[i].data :
               /\ IsSome(log[i].cache[e].speed)
               /\ log[i].cache[e].predicted_activity = "in_vehicle"
               /\ e \in DOMAIN log[i].memoryBefore
               /\ log[i].data[e].activity = "running"

-----------------------------------------------------------------------------
(* The transport and the card's timers *)

\* the calls of sendData made by the handler that ran last
SendCalls == {i \in DOMAIN log : log[i].op = "sendData"}

\* C5: a sendData call made while the messenger is not ready returns false, posts no
\* message to the renderer and leaves the retry counter as it was, whoever the caller
\* is (the backup send 2 seconds after a load included) and also when an iframe is
\* attached.
C5_NotReadySendsNothing ==
    \A i \in SendCalls :
        ~log[i].ready =>
            /\ ~log[i].result
            /\ ~log[i].posted
            /\ log[i].retryAfter = log[i].retryBefore

\* C6: once the retry timer has posted the cached snapshot on 3 ticks in a row, with
\* no acknowledgement and no other handler in between, the next tick of the retry
\* timer sends nothing; a 'data-received' message sets the retry counter to zero.
C6_RetryStopsAfterThree ==
    [][/\ (RetryTick /\ resent >= 3)
            => (\A i \in DOMAIN log' : log'[i].op # "sendData")
       /\ (\E view \in CardViews : Message("data-received", view))
            => (retryCount' = 0)]_vars

\* the newest timestamp of the cache records, for a cache that is not empty
NewestTimestamp ==
    CHOOSE t \in {entityCache[e].timestamp : e \in DOMAIN entityCache} :
        \A e \in DOMAIN entityCache : entityCache[e].timestamp <= t

\* Ready, cache not empty, newest record less than 30 seconds old
FreshAndReady ==
    /\ iframeReady
    /\ DOMAIN entityCache # {}
    /\ now - NewestTimestamp < 30000

\* C7: wherever a tick of the retry timer can happen, it calls sendData only if the
\* messenger is ready, the cache is not empty and the newest cache record is less
\* than 30 seconds older than the time of the tick; a tick at which one of the three
\* fails sends nothing, prepares nothing and leaves the retry counter as it was.
C7_RetryOnlyWhenFresh ==
    (\E x \in timers : x.kind = "retry") =>
        LET r == RetryCallback(Cur)
        IN  /\ (\E i \in DOMAIN r.log : r.log[i].op = "sendData") => FreshAndReady
            /\ ~FreshAndReady => (r.log = <<>> /\ r.retryCount = retryCount)

\* C7: a retry tick has posted a snapshot
C7_Witness ==
    \E i \in SendCalls : log[i].caller = "retry" /\ log[i].posted /\ log[i].ready

\* C8: the ready flag goes from Ready to NotReady only in a handler that calls
\* setIframe, and every setIframe call, and the handler that made it, leaves the
\* flag NotReady.
C8_ReadyMonotonic ==
    [][/\ (iframeReady /\ ~iframeReady')
            => (\E i \in DOMAIN log' : log'[i].op = "setIframe")
       /\ \A i \in DOMAIN log' :
              log'[i].op = "setIframe" => (~log'[i].readyAfter /\ ~iframeReady')]_vars

\* C8: a re-render has called setIframe on a messenger that was Ready
C8_Witness ==
    /\ ~iframeReady
    /\ \E i \in DOMAIN log : log[i].op = "setIframe" /\ log[i].readyBefore

\* what the handler of an 'iframe-ready' message, and the 500 ms timer of each load
\* that is waiting for it, would leave behind in the current state
FlushOutcomes(view) ==
    (IF listeners > 0 THEN {Dispatch(Cur, "iframe-ready", view, listeners)} ELSE {})
    \cup {SettleTimeout(Cur, x, view) : x \in {y \in timeouts : y.stage = "settle"}}

\* C9: the handler of an 'iframe-ready' message, and likewise the 500 ms timer of a
\* load, leaves the messenger Ready and flushes: a snapshot in the pending slot is
\* handed to sendData and the slot is emptied; else, if the cache has data, a
\* snapshot prepared from the cache in that step is handed to sendData; else a
\* fetch cycle is started.  sendData is called with the messenger Ready, and posts
\* when the iframe has a window.
C9_ReadyFlush ==
    \A view \in CardViews : \A r \in FlushOutcomes(view) :
        /\ r.iframeReady
        /\ IF IsSome(pendingData)
           THEN /\ Len(r.log) = 1
                /\ r.log[1].op = "sendData"
                /\ r.log[1].data = pendingData
                /\ r.log[1].ready
                /\ r.log[1].posted = connected
                /\ r.pendingData = None
           ELSE IF DOMAIN entityCache # {}
           THEN /\ Len(r.log) = 2
                /\ r.log[1].op = "prepareEntityData"
                /\ r.log[1].cache = entityCache
                /\ r.log[2].op = "sendData"
                /\ r.log[2].data = Some(r.log[1].data)
                /\ r.log[2].ready
                /\ r.log[2].posted = connected
                /\ r.pendingData = None
           ELSE \E i \in DOMAIN r.log : r.log[i].op = "fetchEntities"

\* C9: a flush has posted the snapshot of the pending slot
C9_Witness ==
    /\ Len(log) = 1
    /\ log[1].op = "sendData"
    /\ log[1].caller = "flush"
    /\ log[1].posted
    /\ pendingData = None
    /\ iframeReady

\* a source option that is present and is not one of the values of its enumeration
InvalidSource(u) ==
    \/ TruthyStr(u.activity_source) /\ u.activity_source \notin {"sensor", "speed_predicted"}
    \/ TruthyStr(u.speed_source) /\ u.speed_source \notin {"calculated", "sensor"}

-----------------------------------------------------------------------------
\* C11: setConfig rejects every configuration whose entities field is missing or is
\* not a sequence (it throws and the configuration in force stays as it was), and
\* it accepts a configuration whose entities field is the empty list.
C11_EntitiesRequired ==
    \A u \in ConfigInputs, view \in CardViews :
        LET r == CardSetConfig(Cur, u, view)
        IN  /\ (~u.entities.truthy \/ ~u.entities.array)
                   => /\ r.threw
                      /\ r.error = "You need to define entities"
                      /\ r.config = config
                      /\ r.entities = entities
            /\ u.entities = Arr(<<>>)
                   => /\ ~r.threw
                      /\ IsSome(r.config)
                      /\ Val(r.config).entities = <<>>
                      /\ r.entities = <<>>

\* the empty list was accepted, a later setConfig threw, and a value that is no
\* list is refused in this state
C11_Witness ==
    /\ IsSome(config)
    /\ Val(config).entities = <<>>
    /\ log = <<[op |-> "throw", from |-> "setConfig"]>>
    /\ CardSetConfig(Cur, [BaseUser EXCEPT !.entities = NotArray(TRUE)], NoView).threw

-----------------------------------------------------------------------------
\* C12: after every accepted setConfig the effective activity_source is 'sensor' or
\* 'speed_predicted' and the effective speed_source is 'calculated' or 'sensor';
\* a configuration that names neither gets 'sensor' and 'calculated'.
C12_SourcesEnumerated ==
    IsSome(config)
        => /\ Val(config).activity_source \in {"sensor", "speed_predicted"}
           /\ Val(config).speed_source \in {"calculated", "sensor"}

-----------------------------------------------------------------------------
\* C13: the effective update_interval is at least one second (ten when the user
\* names none), and the period of the fetch timer is never shorter than one
\* second, whatever value the user supplied.
C13_IntervalAtLeastOneSecond ==
    /\ IsSome(config) => Val(config).update_interval >= 1000
    /\ \A x \in timers : x.kind = "update" => x.period >= 1000

-----------------------------------------------------------------------------
-----------------------------------------------------------------------------
\* C15: at a threshold predictActivity returns the label of the lower rung:
\* 'still' for 1 km/h, 'walking' for 7 km/h, 'on_bicycle' for 25 km/h.
C15_ThresholdIsLowerLabel ==
    \A i \in DOMAIN log :
        log[i].op = "predictActivity"
            => /\ log[i].speedKmh = Some(1000) => log[i].result = "still"
               /\ log[i].speedKmh = Some(7000) => log[i].result = "walking"
               /\ log[i].speedKmh = Some(25000) => log[i].result = "on_bicycle"

-----------------------------------------------------------------------------
\* the time between consecutive points, counting the steps forward in time only
RECURSIVE PositiveTime(_)
PositiveTime(points) ==
    IF Len(points) < 2 THEN 0
    ELSE (IF points[2].timestamp > points[1].timestamp
          THEN points[2].timestamp - points[1].timestamp ELSE 0)
         + PositiveTime(Tail(points))

-----------------------------------------------------------------------------
\* the host's table has the entity with both coordinates present
Usable(view, e) ==
    /\ IsSome(view.persons[e])
    /\ IsSome(Val(view.persons[e]).attributes)
    /\ TruthyNum(Val(Val(view.persons[e]).attributes).latitude)
    /\ TruthyNum(Val(Val(view.persons[e]).attributes).longitude)

\* C17: within one fetch cycle, an entity that fails (its state is not found, its
\* GPS is missing, its activity sensor is missing, reading it throws) never keeps
\* another entity from being processed: every configured entity whose state and
\* GPS are present gets its cache record and its position history updated in that
\* cycle, and the others are left as they were.
C17_FailuresAreIsolated ==
    hass =>
        \A view \in HostViews :
            LET r == FetchEntities(Cur, None, view)
            IN  \A i \in DOMAIN entities :
                    LET e == entities[i].person
                    IN  IF Usable(view, e)
                        THEN /\ e \in DOMAIN r.entityCache
                             /\ r.entityCache[e].person = Val(view.persons[e])
                             /\ r.entityCache[e].timestamp = now
                             /\ r.positionHistory[e][Len(r.positionHistory[e])] =
                                    [latitude |->
                                         Val(Val(Val(view.persons[e]).attributes).latitude),
                                     longitude |->
                                         Val(Val(Val(view.persons[e]).attributes).longitude),
                                     timestamp |-> now]
                             /\ r.processed[e] = (IF e \in DOMAIN processed
                                                  THEN processed[e] ELSE 0) + 1
                        ELSE /\ Get(r.entityCache, e) = Get(entityCache, e)
                             /\ SeqAt(r.positionHistory, e) = SeqAt(positionHistory, e)

\* two entities are configured; the second one was recorded in a cycle in which the
\* first one, listed before it, was not
C17_Witness ==
    /\ Len(entities) = 2
    /\ "person.b" \in DOMAIN entityCache
    /\ "person.a" \notin DOMAIN entityCache
    /\ entityCache["person.b"].timestamp = now

-----------------------------------------------------------------------------
\* C18: whatever the state before it, disconnectedCallback leaves, in the same
\* step, no fetch timer, no retry timer and no message listener.
C18_DisconnectReleasesAll ==
    LET r == DisconnectedCallback(Cur)
    IN  /\ r.timers = {}
        /\ r.updateInterval = 0
        /\ r.retryInterval = 0
        /\ r.listeners = 0
        /\ ~r.messageListener

\* a card that was rendered and fed by the host, after it was taken out of the
\* document: the retry timer of the render, the fetch timer and the listener are gone
C18_Witness ==
    /\ ~connected
    /\ IsSome(config)
    /\ iframe
    /\ hass
    /\ "person.a" \in DOMAIN entityCache
    /\ timers = {}
    /\ updateInterval = 0
    /\ retryInterval = 0
    /\ listeners = 0
    /\ ~messageListener

-----------------------------------------------------------------------------
\* C19: every 'config-update' message posted to the renderer carries the
\* marker_size the card passed to sendConfigUpdate, so that a change of
\* marker_size alone reaches the renderer without a reload.
C19_ConfigUpdateCarriesMarkerSize ==
    \A i \in DOMAIN log :
        (log[i].op = "sendConfigUpdate" /\ log[i].posted)
            => log[i].marker_size = log[i].passed

-----------------------------------------------------------------------------
\* C20: a postMessage that throws, or a renderer window that is missing, during
\* sendData or sendConfigUpdate is never propagated to the caller: the call
\* returns false and does not reset the retry counter.  A sendData that posts
\* returns true and sets the retry counter to zero.
C20_SendFailuresContained ==
    \A data \in MessengerData, markerSize \in MarkerSizes, postMessageThrows \in BOOLEAN :
        LET s == [Cur EXCEPT !.postMessageThrows = postMessageThrows]
            d == SendData(s, data, "call")
            c == SendConfigUpdate(s, "default", markerSize)
            failing == ~HasContentWindow(s) \/ postMessageThrows
        IN  /\ ~d.threw /\ ~c.threw
            /\ failing => /\ d.ret = FALSE /\ d.retryCount = retryCount
                           /\ c.ret = FALSE /\ c.retryCount = retryCount
            /\ (~failing /\ IsSome(data) /\ DOMAIN Val(data) # {})
                   => d.ret = TRUE /\ d.retryCount = 0

\* a snapshot handed to a messenger whose renderer window exists was not posted:
\* postMessage threw; the call returned false and the counter kept its value
C20_Witness ==
    /\ iframe /\ connected
    /\ retryCount > 0
    /\ Len(log) = 1
    /\ log[1].op = "sendData"
    /\ IsSome(log[1].data) /\ DOMAIN Val(log[1].data) # {}
    /\ ~log[1].posted
    /\ ~log[1].result
    /\ log[1].retryAfter = retryCount

-----------------------------------------------------------------------------
\* the handler's log holds a setIframe call: the card rendered, a new iframe is attached
Rerendered(s) == \E i \in DOMAIN s.log : s.log[i].op = "setIframe"

\* C21: the messenger becomes Ready for the attached renderer instance only
\* through an 'iframe-ready' signal of, or the settle delay of a load of, that same
\* instance.  Whenever a setConfig re-renders, a settle timer that was pending
\* before it (scheduled for a load of an instance attached earlier) and an
\* 'iframe-ready' message of the instance attached before it leave the messenger
\* NotReady for the instance attached by the re-render.
C21_ReadyOnlyFromAttachedInstance ==
    \A u \in UserConfigs, view \in CardViews :
        LET a == CardSetConfig(Cur, u, view)
        IN  Rerendered(a)
                => /\ \A x \in timeouts :
                          x.stage = "settle" => ~SettleTimeout(a, x, view).iframeReady
                   /\ (iframe /\ connected)
                          => ~Dispatch(a, "iframe-ready", view, a.listeners).iframeReady

-----------------------------------------------------------------------------
\* the events of a handler's log that record a call of the given operation
Ops(s, op) == {i \in DOMAIN s.log : s.log[i].op = op}

\* what the handling of a 'request-data' message does apart from the retry counter:
\* exactly one fetch cycle, the ready flag kept, and the snapshot of the cycle, if
\* any, sent when Ready and put in the pending slot, unsent, when NotReady
RequestDataFetchesOnce(r) ==
    /\ Cardinality(Ops(r, "fetchEntities")) = 1
    /\ r.iframeReady = iframeReady
    /\ LET returned == \E i \in Ops(r, "fetchEntities") : r.log[i].returned
       IN  IF ~returned
           THEN Ops(r, "sendData") = {} /\ r.pendingData = pendingData
           ELSE IF iframeReady
           THEN /\ Cardinality(Ops(r, "sendData")) = 1
                /\ \A i \in Ops(r, "sendData"), j \in Ops(r, "prepareEntityData") :
                       r.log[i].data = Some(r.log[j].data)
                /\ r.pendingData = pendingData
           ELSE /\ Ops(r, "sendData") = {}
                /\ \A j \in Ops(r, "prepareEntityData") :
                       r.pendingData = Some(r.log[j].data)

\* C22 as stated: a 'request-data' message starts exactly one fetch cycle and
\* changes neither the ready flag nor the retry counter; when the messenger is
\* NotReady the snapshot goes to the pending slot instead of being sent.
C22_RequestDataKeepsCounter ==
    listeners > 0 =>
        \A view \in CardViews :
            LET r == Dispatch(Cur, "request-data", view, listeners)
            IN  RequestDataFetchesOnce(r) /\ r.retryCount = retryCount

\* C22 amended: a 'request-data' message starts exactly one fetch cycle and keeps
\* the ready flag; when NotReady the snapshot goes to the pending slot unsent; the
\* retry counter is kept unless the cycle's snapshot is posted to the renderer, and
\* that send, as every send that posts, sets it to zero.
C22_RequestDataFetchesOnce ==
    listeners > 0 =>
        \A view \in CardViews :
            LET r == Dispatch(Cur, "request-data", view, listeners)
                posted == \E i \in Ops(r, "sendData") : r.log[i].posted
            IN  /\ RequestDataFetchesOnce(r)
                /\ r.retryCount = IF posted THEN 0 ELSE retryCount

\* no fetch timer was ever started and the messenger is NotReady, yet a fetch cycle
\* has just put its snapshot in the pending slot: the renderer asked for data
C22_Witness ==
    /\ listeners > 0
    /\ updateInterval = 0
    /\ ~iframeReady
    /\ \E i \in DOMAIN log : log[i].op = "fetchEntities" /\ log[i].returned
    /\ \A i \in DOMAIN log : log[i].op # "sendData"
    /\ IsSome(pendingData)

-----------------------------------------------------------------------------
\* C23: an inbound message whose type is none of 'iframe-ready', 'request-data'
\* and 'data-received', or that has no data, leaves every piece of state as it
\* was (ready flag, retry counter, pending slot, cache, history, sticky memory,
\* timers, listeners); no message is sent and no fetch cycle starts.
C23_UnknownMessageIgnored ==
    listeners > 0 =>
        \A type \in {"other", NoData}, view \in CardViews :
            Dispatch(Cur, type, view, listeners) = Cur

\* a listening card with a snapshot cached, the messenger Ready and a retry counted:
\* a state in which each of the three known messages would change something
C23_Witness ==
    /\ listeners > 0
    /\ iframeReady
    /\ retryCount > 0
    /\ DOMAIN entityCache # {}
    /\ log = <<>>

-----------------------------------------------------------------------------
\* the distance between consecutive points, counting the steps forward in time only
RECURSIVE PositiveDistance(_)
PositiveDistance(points) ==
    IF Len(points) < 2 THEN 0
    ELSE (IF points[2].timestamp > points[1].timestamp
          THEN MmPerLatStep * Abs(points[2].latitude - points[1].latitude) ELSE 0)
         + PositiveDistance(Tail(points))

\* a result of calculateSpeed for the stored history h and the current sample c is
\* the average over the steps forward in time of h followed by c
AveragesAllPairs(result, h, c) ==
    IsSome(result)
        => LET points == Append(h, c)
           IN  /\ Len(h) >= 1
               /\ Val(result).distance_m = PositiveDistance(points)
               /\ Val(result).time_diff = PositiveTime(points)
               /\ Val(result).speed_kmh =
                      (36 * PositiveDistance(points)) \div (PositiveTime(points) \div 100)

\* C24: for a history h of 1 to 5 samples and a current sample c, a non-null result
\* of calculateSpeed has as distance the sum of the distances, and as time the sum
\* of the time deltas, over exactly the consecutive pairs of h followed by c whose
\* time delta is strictly positive, c being used once as the last point (the speed
\* of a fetch cycle is computed before c is appended), and as speed that distance
\* over that time: an average over all pairs.  Checked for the estimate each cycle
\* stored in the cache and for every current sample at every stored history.
C24_SpeedAveragesAllPairs ==
    \A e \in DOMAIN positionHistory :
        /\ e \in DOMAIN entityCache
               => LET samples == recorded[e]
                      before == LastOf(SubSeq(samples, 1, Len(samples) - 1),
                                       HistoryCapacity)
                  IN  AveragesAllPairs(entityCache[e].speed, before,
                                       samples[Len(samples)])
        /\ \A c \in CallPositions :
               AveragesAllPairs(CalculateSpeed(positionHistory, e, c),
                                positionHistory[e], c)

\* five samples are stored, taken at two times and two places; the estimate of the
\* last cycle is in the cache, and a later sample gives an estimate over two steps
C24_Witness ==
    /\ "person.a" \in DOMAIN entityCache
    /\ IsSome(entityCache["person.a"].speed)
    /\ Val(entityCache["person.a"].speed).distance_m > 0
    /\ Len(positionHistory["person.a"]) = 5
    /\ \E c \in CallPositions :
           LET r == CalculateSpeed(positionHistory, "person.a", c)
           IN  IsSome(r) /\ Val(r).time_diff = 10000

-----------------------------------------------------------------------------
\* f and g agree about key k: both lack it or both map it to the same value
SameAt(f, g, k) ==
    /\ (k \in DOMAIN f) = (k \in DOMAIN g)
    /\ k \in DOMAIN g => f[k] = g[k]

\* the sticky-memory entry prepareEntityData leaves for an entity whose cache
\* record is data
StickyAfterPrepare(cfg, data, before) ==
    IF IsSome(cfg) /\ Val(cfg).activity_source = "speed_predicted" /\ TruthyObj(data.speed)
    THEN IF TruthyStr(data.predicted_activity) THEN data.predicted_activity ELSE "unknown"
    ELSE before

-----------------------------------------------------------------------------
\* C26: fetchEntities returns null exactly when no configured entity produced a
\* cache update in this cycle (also when the cache still holds records of earlier
\* cycles, and when hass is not set); otherwise it returns a snapshot with one
\* entry for every entity of the cache, the entities skipped in this cycle
\* included.
C26_NullIffNoUpdate ==
    \A cfg \in FetcherConfigs, view \in HostViews :
        LET r == FetchEntities(Cur, cfg, view)
            updated == {entities[i].person : i \in {j \in DOMAIN entities :
                                                       Usable(view, entities[j].person)}}
        IN  /\ (r.ret = None) = (~hass \/ updated = {})
            /\ ~hass => r.entityCache = entityCache
            /\ IsSome(r.ret)
                   => /\ DOMAIN Val(r.ret) = DOMAIN r.entityCache
                      /\ DOMAIN r.entityCache = DOMAIN entityCache \cup updated
                      /\ \A e \in updated : r.entityCache[e].timestamp = now
                      /\ \A e \in DOMAIN entityCache \ updated :
                             /\ r.entityCache[e] = entityCache[e]
                             /\ Val(r.ret)[e].latitude =
                                    Val(entityCache[e].person.attributes).latitude

\* the last cycle returned null although hass is set, an entity is configured and
\* the cache holds a record of an earlier cycle
C26_Witness ==
    /\ hass
    /\ Len(entities) > 0
    /\ DOMAIN entityCache # {}
    /\ \E i \in DOMAIN log : log[i].op = "fetchEntities" /\ ~log[i].returned

-----------------------------------------------------------------------------
TimersOf(s, kind) == {x \in s.timers : x.kind = kind}

\* at most one timer of each kind and at most one listener, each held by the
\* card's handle for it
AtMostOneOfEach ==
    /\ Cardinality(TimersOf(Cur, "update")) <= 1
    /\ Cardinality(TimersOf(Cur, "retry")) <= 1
    /\ listeners <= 1
    /\ \A x \in timers : x.id = IF x.kind = "update" THEN updateInterval ELSE retryInterval
    /\ updateInterval # 0 => TimersOf(Cur, "update") # {}

\* r, the outcome of a hass assignment, has started the fetch-cycle timer with one
\* immediate fetch
StartedOnce(r) ==
    /\ Cardinality(TimersOf(r, "update")) = 1
    /\ \A x \in TimersOf(r, "update") :
           x.id = r.updateInterval /\ x.period = Val(r.config).update_interval
    /\ Cardinality(Ops(r, "fetchEntities")) = 1

\* r, the outcome of a hass assignment, has the timers of the state before it
NotStarted(r) ==
    /\ r.timers = timers
    /\ r.updateInterval = updateInterval

-----------------------------------------------------------------------------
\* C28: when an accepted setConfig changes update_interval while the fetch-cycle
\* timer is running, the running timer is cleared and restarted, so that the
\* fetch cycles after it fire at the new interval: the running fetch-cycle timer
\* always has the period of the effective configuration.
C28_TimerFollowsInterval ==
    \A x \in timers :
        x.kind = "update" => x.period = Val(config).update_interval

-----------------------------------------------------------------------------
\* r, the outcome of an accepted setConfig, has another activity_source or
\* speed_source than the configuration in effect before the call
SourceChanged(r) ==
    /\ IsSome(config)
    /\ \/ Val(r.config).activity_source # Val(config).activity_source
       \/ Val(r.config).speed_source # Val(config).speed_source

\* C29 (as stated): an accepted setConfig that changes activity_source or
\* speed_source relative to the previously effective configuration triggers
\* exactly one fetch cycle during that call, and one that changes neither
\* triggers none.
C29_SourceChangeFetchesOnce ==
    \A userConfig \in ConfigInputs, view \in CardViews :
        LET r == CardSetConfig(Cur, userConfig, view)
        IN  ~r.threw
                => Cardinality(Ops(r, "fetchEntities")) = IF SourceChanged(r) THEN 1 ELSE 0

\* C29 (amended): an accepted setConfig that changes activity_source or
\* speed_source triggers exactly one fetch cycle during that call when the
\* fetch-cycle timer is running, and none when it is not; one that changes
\* neither triggers none.
C29_SourceChangeFetchesWhileRunning ==
    \A userConfig \in ConfigInputs, view \in CardViews :
        LET r == CardSetConfig(Cur, userConfig, view)
        IN  ~r.threw
                => Cardinality(Ops(r, "fetchEntities")) =
                       IF SourceChanged(r) /\ updateInterval # 0 THEN 1 ELSE 0

\* the last handler re-rendered and fetched, which only setConfig does, and the
\* fetch-cycle timer is running
C29_Witness ==
    /\ updateInterval # 0
    /\ \E i \in DOMAIN log : log[i].op = "setIframe"
    /\ Cardinality({i \in DOMAIN log : log[i].op = "fetchEntities"}) = 1

-----------------------------------------------------------------------------
\* r, the outcome of an accepted setConfig, differs from the configuration in
\* effect before the call in a key that is none of the visual ones
OtherKeyChanged(r) ==
    /\ IsSome(config)
    /\ \E prop \in DOMAIN Val(config) \ VisualProps :
           Val(r.config)[prop] # Val(config)[prop]

\* C30: setConfig takes the config-update path (a config-update message, no
\* re-render, ready flag kept) only when the old and the new effective
\* configuration differ in visual keys alone; a change of any other key always
\* re-renders the renderer, which leaves the messenger NotReady.
C30_ConfigUpdateOnlyForVisualChanges ==
    \A userConfig \in UserConfigs, view \in CardViews :
        LET r == CardSetConfig(Cur, userConfig, view)
        IN  ~r.threw
                => /\ Ops(r, "sendConfigUpdate") # {} => ~OtherKeyChanged(r)
                   /\ OtherKeyChanged(r) => Rerendered(r) /\ ~r.iframeReady

-----------------------------------------------------------------------------
\* the snapshots the fetch cycles recorded in the log have yielded
Yielded(lg) ==
    {lg[j].data : j \in {i \in DOMAIN lg : /\ lg[i].op = "prepareEntityData"
                                            /\ i < Len(lg)
                                            /\ lg[i + 1].op = "fetchEntities"}}

SentBy(lg, caller) == {i \in DOMAIN lg : lg[i].op = "sendData" /\ lg[i].caller = caller}

\* C31: the card holds at most one pending snapshot and the messenger none: a
\* fetch cycle that yields a snapshot while the messenger is NotReady overwrites
\* the pending slot, so that the slot holds the snapshot of the most recent such
\* cycle, and a fetch cycle that yields a snapshot while Ready sends it and
\* leaves the slot untouched; a cycle that yields none does neither.
C31_PendingSlotHoldsLatest ==
    /\ \A view \in CardViews :
           LET r == CardFetchEntities(Cur, view)
           IN  IF Yielded(r.log) = {}
               THEN r.pendingData = pendingData /\ SentBy(r.log, "fetch") = {}
               ELSE IF iframeReady
               THEN /\ r.pendingData = pendingData
                    /\ Cardinality(SentBy(r.log, "fetch")) = 1
                    /\ \A i \in SentBy(r.log, "fetch") :
                           Yielded(r.log) = {Val(r.log[i].data)}
               ELSE /\ Yielded(r.log) = {Val(r.pendingData)}
                    /\ SentBy(r.log, "fetch") = {}
    \* whichever handler ran last: the snapshot its cycle yielded was sent by the
    \* cycle or is the one in the slot
    /\ Yielded(log) # {}
           => IF SentBy(log, "fetch") # {}
              THEN \A i \in SentBy(log, "fetch") :
                       log[i].ready /\ Yielded(log) = {Val(log[i].data)}
              ELSE IsSome(pendingData) /\ Yielded(log) = {Val(pendingData)}

\* two fetch cycles have recorded the entity while the messenger was NotReady, the
\* second one at a later time: its snapshot is the one in the slot
C31_Witness ==
    /\ ~iframeReady
    /\ "person.a" \in DOMAIN processed
    /\ processed["person.a"] = 2
    /\ entityCache["person.a"].timestamp = now
    /\ now > 0
    /\ Yielded(log) # {}
    /\ IsSome(pendingData)
    /\ TruthyObj(Val(pendingData)["person.a"].speed)

-----------------------------------------------------------------------------
\* r, the outcome of a handler, has the cache, the histories and the sticky memory
\* of the state before it unless the handler ran a fetch cycle
OnlyCyclesMutate(r) ==
    Ops(r, "fetchEntities") = {}
        => /\ r.entityCache = entityCache
           /\ r.positionHistory = positionHistory
           /\ r.lastPredictedActivity = lastPredictedActivity

\* C32: the entity cache, the position histories and the sticky activity memory
\* change only during a fetch cycle: a retry-timer re-send, a ready flush, the
\* 2-second backup send, sendConfigUpdate and every inbound message other than
\* one that starts a fetch cycle leave all three unchanged.
C32_OnlyFetchCyclesMutate ==
    /\ retryInterval # 0 => OnlyCyclesMutate(RetryCallback(Cur))
    /\ \A x \in timeouts :
           IF x.stage = "backup" THEN OnlyCyclesMutate(BackupTimeout(Cur, x))
           ELSE \A view \in CardViews : OnlyCyclesMutate(SettleTimeout(Cur, x, view))
    /\ IsSome(config) => OnlyCyclesMutate(CardSendConfigUpdate(Cur))
    /\ listeners > 0
           => \A type \in MessageTypes, view \in CardViews :
                  OnlyCyclesMutate(Dispatch(Cur, type, view, listeners))

-----------------------------------------------------------------------------
(* The fetch cycles, one statement group at a time *)

\* How a call of _fetchEntities that stands at the given position gives up the
\* thread, if the host's state lookup in the loop were awaited across tasks
YieldsInLoop(position) == IF position = "loop" THEN "task" ELSE "microtask"

\* How a call of _fetchEntities that stands at the given position gives up the
\* thread.  In the for loop of fetchEntities and in prepareEntityData there is no
\* await: the call keeps the thread ("none").  _fetchEntities awaits the promise
\* of fetchEntities, which is settled by then: its continuation is a microtask.
\* A position that waited for another task would be "task".
Yields(position) == IF position = "loop" THEN "none" ELSE "microtask"

\* a task of the event loop (a timer, a message, a setter) may begin: no call is
\* running and no microtask is queued
Idle == \A k \in DOMAIN calls : Yields(calls[k].position) = "task"

\* the call may take its next step: it runs, or nothing runs and its turn has come
MayStep(k) ==
    LET Waiting(kinds) == \E j \in DOMAIN calls : Yields(calls[j].position) \in kinds
        y == Yields(calls[k].position)
    IN  CASE y = "none" -> TRUE
          [] y = "microtask" -> ~Waiting({"none"})
          [] OTHER -> ~Waiting({"none", "microtask"})

Remove(q, k) == SubSeq(q, 1, k - 1) \o SubSeq(q, k + 1, Len(q))

CycleViews == Views({None, At(1), At(2)}, {None, At(1)}, {None})

\* a trigger calls _fetchEntities: the configuration is read and fetchEntities is
\* entered
StartCycle(cfg, view) ==
    /\ Idle
    /\ Len(calls) < MaxCalls
    /\ Commit([Cur EXCEPT !.calls =
                   Append(@, [position |-> "loop", i |-> 1, hasValidData |-> FALSE,
                              cfg |-> cfg, view |-> view, data |-> None,
                              began |-> [entityCache |-> entityCache,
                                         positionHistory |-> positionHistory,
                                         lastPredictedActivity |-> lastPredictedActivity,
                                         entities |-> entities, hass |-> hass,
                                         now |-> now]])],
              CycleSamples)

\* the next statement group of fetchEntities for call k: the test of hass, one
\* pass of the for loop, or the return after the loop
StepCycle(k) ==
    /\ calls[k].position = "loop"
    /\ MayStep(k)
    /\ LET c == calls[k]
           Return(s, data) ==
               [s EXCEPT !.calls[k].position = "await", !.calls[k].data = data]
           Pass(s) ==
               [s EXCEPT !.entities = entities,
                         !.calls[k].i = c.i + 1,
                         !.calls[k].hasValidData = c.hasValidData \/ s.ret,
                         !.ret = None]
           Snapshot(s) == Return(s, Some(s.ret))
       IN  Commit(IF ~hass THEN Return(Cur, None)
                  ELSE IF c.i <= Len(entities)
                  THEN Pass(FetchLoop([Cur EXCEPT !.entities = <<entities[c.i]>>],
                                      c.view, 1, FALSE))
                  ELSE IF c.hasValidData
                  THEN Snapshot(PrepareEntityData(Cur, c.cfg))
                  ELSE Return(Cur, None),
                  CycleSamples)

\* the continuation of _fetchEntities after its await, for call k
ResumeCycle(k) ==
    /\ calls[k].position = "await"
    /\ MayStep(k)
    /\ Commit(FetchEntitiesDone([Cur EXCEPT !.calls = Remove(@, k)], calls[k].data),
              CycleSamples)

NextCycles ==
    \/ \E d \in FetcherSteps : Idle /\ Advance(d, MaxNow, CycleSamples)
    \/ \E h \in BOOLEAN : Idle /\ SetHass(h, CycleSamples)
    \/ \E list \in EntityLists : Idle /\ SetEntities(list, CycleSamples)
    \/ \E cfg \in FetcherConfigs, view \in CycleViews : StartCycle(cfg, view)
    \/ \E k \in DOMAIN calls : StepCycle(k)
    \/ \E k \in DOMAIN calls : ResumeCycle(k)

SpecCycles == Init /\ [][NextCycles]_vars

-----------------------------------------------------------------------------
\* what fetchEntities, run in one piece from the state in which call c began,
\* leaves in the three maps and returns
InOnePiece(c) ==
    FetchEntities([Cur EXCEPT !.entityCache = c.began.entityCache,
                              !.positionHistory = c.began.positionHistory,
                              !.lastPredictedActivity = c.began.lastPredictedActivity,
                              !.entities = c.began.entities,
                              !.hass = c.began.hass,
                              !.now = c.began.now],
                  c.cfg, c.view)

\* C33: no two fetch cycles overlap: whichever triggers fire, at most one call is
\* between its first and its last access to the cache, the histories and the
\* sticky memory, and a call that has made its last access leaves the three maps
\* and its snapshot as one uninterrupted run of the cycle from the state in which
\* it began would.
C33_CyclesDoNotOverlap ==
    /\ Cardinality({k \in DOMAIN calls : calls[k].position = "loop"}) <= 1
    /\ \A k \in DOMAIN calls :
           calls[k].position = "await"
               => LET r == InOnePiece(calls[k])
                  IN  /\ entityCache = r.entityCache
                      /\ positionHistory = r.positionHistory
                      /\ lastPredictedActivity = r.lastPredictedActivity
                      /\ calls[k].data = r.ret

\* a cycle has recorded both entities, one after the other, and its continuation
\* has not run yet
C33_Witness ==
    \E k \in DOMAIN calls :
        /\ calls[k].position = "await"
        /\ IsSome(calls[k].data)
        /\ DOMAIN Val(calls[k].data) = Persons
        /\ \A e \in Persons : entityCache[e].timestamp = now
        /\ calls[k].began.entityCache # entityCache

-----------------------------------------------------------------------------
\* C34: no operation ever removes an entry from the entity cache, the
\* position-history map or the sticky memory: in every step their key sets grow
\* or stay, the cache record of an entity that is not configured stays as it is,
\* and every snapshot prepared has an entry for every entity of the cache.
C34_EntriesAreNeverRemoved ==
    [][/\ DOMAIN entityCache \subseteq DOMAIN entityCache'
       /\ DOMAIN positionHistory \subseteq DOMAIN positionHistory'
       /\ DOMAIN lastPredictedActivity \subseteq DOMAIN lastPredictedActivity'
       /\ \A e \in DOMAIN entityCache :
              (\A i \in DOMAIN entities' : entities'[i].person # e)
                  => entityCache'[e] = entityCache[e]
       /\ \A i \in DOMAIN log' :
              log'[i].op = "prepareEntityData"
                  => DOMAIN log'[i].data = DOMAIN entityCache']_vars

\* no entity is configured any more, and the snapshot just prepared still has the
\* entity that was removed, from its cache record and its sticky-memory entry
C34_Witness ==
    /\ entities = <<>>
    /\ "person.a" \in DOMAIN entityCache
    /\ "person.a" \in DOMAIN positionHistory
    /\ "person.a" \in DOMAIN lastPredictedActivity
    /\ \E i \in DOMAIN log :
           /\ log[i].op = "prepareEntityData"
           /\ "person.a" \in DOMAIN log[i].data

-----------------------------------------------------------------------------
\* C35: whenever a fetch cycle computes a non-null predicted activity for an
\* entity, the sticky memory holds that label for that entity at the end of the
\* cycle, in every activity_source mode.
C35_PredictionIsRemembered ==
    hass =>
        \A cfg \in FetcherConfigs, view \in FetcherViews :
            LET r == FetchEntities(Cur, cfg, view)
            IN  \A i \in DOMAIN entities :
                    LET e == entities[i].person
                    IN  (Usable(view, e) /\ TruthyStr(r.entityCache[e].predicted_activity))
                            => Get(r.lastPredictedActivity, e) =
                                   r.entityCache[e].predicted_activity

-----------------------------------------------------------------------------
\* the sticky memory as it is, and as it is after an entity of the cache was
\* remembered walking, a label a longer past than the bound on time allows may
\* have left
RememberedOrOlder ==
    {lastPredictedActivity}
    \cup {Put(lastPredictedActivity, e, "walking") : e \in DOMAIN entityCache}

\* C36: re-sending is idempotent: with the cache and the effective configuration
\* unchanged, preparing the snapshot a second time yields a snapshot equal to the
\* first and leaves the cache, the histories and the sticky memory as the first
\* preparation left them.
C36_PreparingTwiceIsPreparingOnce ==
    \A cfg \in FetcherConfigs, memory \in RememberedOrOlder :
        LET first == PrepareEntityData([Cur EXCEPT !.lastPredictedActivity = memory], cfg)
            second == PrepareEntityData(first, cfg)
        IN  /\ second.ret = first.ret
            /\ second.entityCache = first.entityCache
            /\ second.positionHistory = first.positionHistory
            /\ second.lastPredictedActivity = first.lastPredictedActivity
            /\ first.entityCache = entityCache
            /\ first.positionHistory = positionHistory

\* a snapshot has just been prepared in speed_predicted mode from a record with a
\* speed estimate, and that preparation changed the sticky memory
C36_Witness ==
    /\ DOMAIN entityCache # {}
    /\ \E i \in DOMAIN log :
           /\ log[i].op = "prepareEntityData"
           /\ log[i].source = "speed_predicted"
           /\ log[i].memoryBefore # log[i].memoryAfter

-----------------------------------------------------------------------------
\* C37: every entity-update message carries a snapshot computed from the cache
\* and the effective configuration as they are at the moment of sending: what
\* the handler that ran last has posted is what prepareEntityData returns for
\* the cache and the configuration it left.
C37_SnapshotsAreFresh ==
    \A i \in DOMAIN log :
        (log[i].op = "sendData" /\ log[i].posted)
            => log[i].data = Some(PrepareEntityData(Cur, config).ret)

-----------------------------------------------------------------------------
\* C38: between event handlers, whenever the messenger is Ready the card's
\* pending slot is empty: every transition to Ready flushes the slot and no
\* fetch cycle fills it while Ready, so that the pending-flush branch of the hass
\* setter is never taken.
C38_ReadyMeansNothingPending ==
    /\ iframeReady => pendingData = None
    /\ SentBy(log, "hass") = {}
    /\ \A view \in CardViews : SentBy(HassSetter(Cur, TRUE, view).log, "hass") = {}

\* the handler that ran last made the messenger Ready and posted the snapshot
\* that was pending
C38_Witness ==
    /\ iframeReady
    /\ hass
    /\ pendingData = None
    /\ \E i \in SentBy(log, "flush") : log[i].posted /\ ~TruthyObj(Val(log[i].data)["person.a"].speed)
    /\ \A i \in DOMAIN log : log[i].op # "prepareEntityData"

-----------------------------------------------------------------------------
\* the card was rendered and has been torn down, and neither a hass assignment
\* nor a setConfig has started a timer since
TornDown == iframe /\ ~connected /\ updateInterval = 0 /\ retryInterval = 0

\* r, the outcome of a handler, has posted no snapshot, run no fetch cycle and
\* kept the ready flag
Quiet(r) ==
    /\ \A i \in Ops(r, "sendData") : ~r.log[i].posted
    /\ Ops(r, "fetchEntities") = {}
    /\ r.iframeReady = iframeReady

\* C39: after disconnectedCallback no entity-update message is sent, no fetch
\* cycle runs and the messenger's ready flag does not change until hass is
\* assigned or setConfig is called again: the 500 ms and 2 s timers scheduled by
\* an earlier iframe load, the interval timers and the messages do nothing once
\* the card is torn down.
C39_NothingRunsAfterTeardown ==
    TornDown
        => /\ timers = {}
           /\ listeners = 0
           /\ \A x \in timeouts :
                  IF x.stage = "backup" THEN Quiet(BackupTimeout(Cur, x))
                  ELSE \A view \in CardViews : Quiet(SettleTimeout(Cur, x, view))

-----------------------------------------------------------------------------
\* what the host's table may hold when the renderer asks and when the timer fires
TelemetryViews == Views({None, At(1), At(2)}, {None}, {Some([state |-> "running"])})

\* the timer-driven fetch cycle that runs d milliseconds after state s
TimerCycleAfter(s, d, view) == CardFetchEntities([s EXCEPT !.now = now + d], view)

\* C40: inbound renderer messages do not influence derived telemetry: for the
\* same host positions and timer ticks, the speed estimate and the predicted
\* activity that the next timer-driven fetch cycle computes for an entity are
\* the same whether or not a 'request-data' message was received before the
\* tick.
C40_MessagesDoNotChangeTelemetry ==
    (listeners > 0 /\ updateInterval # 0)
        => \A asked \in TelemetryViews, ticked \in TelemetryViews, d \in CardSteps :
               LET without == TimerCycleAfter(Cur, d, ticked)
                   with == TimerCycleAfter(Dispatch(Cur, "request-data", asked, listeners),
                                           d, ticked)
               IN  \A e \in DOMAIN without.entityCache :
                       /\ e \in DOMAIN with.entityCache
                       /\ Usable(ticked, e)
                              => /\ with.entityCache[e].speed = without.entityCache[e].speed
                                 /\ with.entityCache[e].predicted_activity =
                                        without.entityCache[e].predicted_activity

=============================================================================
